---- MODULE Spec2Model ----
(***************************************************************************)
(* Model of the caching / dispatch core of VRCVideoCacher:                 *)
(*   - internal/cache/manager.go       (cache Manager: index + directory)  *)
(*   - internal/downloader/downloader.go (queue, worker pool, lifecycle)   *)
(*   - internal/api (server.go, handlers.go: the HTTP dispatcher)          *)
(*   - cmd/ytdlp-stub/main.go          (the stub client)                   *)
(* Strings (ids, file names) are sequences of one-character strings, so    *)
(* that filepath.Ext, strings.ToLower and strings.TrimSuffix are computed  *)
(* the way the code computes them.                                         *)
(***************************************************************************)
EXTENDS Integers, Sequences, FiniteSets, TLC

VARIABLES
    entries,       \* Manager.entries: map id -> CacheEntry
    disk,          \* the cache directory: map file name -> [size, mtime]
    maxSizeBytes,  \* Manager.maxSizeBytes
    now,           \* the wall clock read by time.Now()
    queue,         \* Downloader.queue: sequence of requests
    active,        \* Downloader.active: map id -> worker holding the request
    running,       \* Downloader.running
    ctxGen,        \* Downloader.ctx: generation of the current context (0 = nil)
    cancelled,     \* the context generations that have been cancelled
    wg,            \* Downloader.workerWg: counter, waiters, semaphore; its panic
    workers,       \* the worker goroutines: map worker -> [pc, req, cmdCtx]
    stopWaiting,   \* number of Stop calls past d.mu.Unlock() that have not returned
    hist,          \* observation: per-id counters of accepted Queue calls, runs, AddEntry calls
    last,          \* observation: the operation that produced this state and its result
    srv,           \* Server: running, the HTTP server, the position of a Start or Stop call
    handler,       \* the GET /api/getvideo request being handled
    reply,         \* observation: the last result of the Server or of a handler
    stub,          \* the stub client: its arguments and what it did with them
    cookies,       \* the file youtube_cookies.txt of the cache directory
    posts,         \* the POST /api/youtube-cookies requests being handled: map handler -> [pc, body, err]
    locked         \* the files of the cache directory that os.Remove cannot remove

cacheVars == <<entries, disk, maxSizeBytes, now>>
dlVars == <<queue, active, running, ctxGen, cancelled, wg, workers, stopWaiting, hist>>
apiVars == <<srv, handler, reply, stub, cookies, posts, locked>>
vars == <<entries, disk, maxSizeBytes, now, queue, active, running, ctxGen,
          cancelled, wg, workers, stopWaiting, hist, last, srv, handler, reply, stub,
          cookies, posts, locked>>

----------------------------------------------------------------------------
(* Bounds of the model *)

MaxClock == 2      \* the clock ticks at most this many times
MaxStarts == 2     \* Downloader.Start takes effect at most this many times
MaxQueueCalls == 2 \* Downloader.Queue accepts at most this many requests per id
ApiMaxClock == 1   \* with the daemon running the clock ticks at most this many times
ApiMaxStarts == 1  \* the Server of the daemon is started at most this many times
MaxPosts == 2      \* POST /api/youtube-cookies requests are handled at most this many at once

----------------------------------------------------------------------------
(* Strings *)

Upper == <<"A","B","C","D","E","F","G","H","I","J","K","L","M",
           "N","O","P","Q","R","S","T","U","V","W","X","Y","Z">>
Lower == <<"a","b","c","d","e","f","g","h","i","j","k","l","m",
           "n","o","p","q","r","s","t","u","v","w","x","y","z">>
Digits == <<"0","1","2","3","4","5","6","7","8","9">>

\* the characters in byte order, as far as the model uses them
ByteOrder == <<"-", ".">> \o Digits \o Upper \o <<"_">> \o Lower

Byte(c) == CHOOSE i \in 1..Len(ByteOrder) : ByteOrder[i] = c

\* Go's string comparison s < t (bytewise lexicographic)
StrLess(s, t) ==
    \E k \in 1..(Len(t)) :
        /\ \A j \in 1..(k-1) : j <= Len(s) /\ s[j] = t[j]
        /\ \/ k = Len(s) + 1
           \/ k <= Len(s) /\ Byte(s[k]) < Byte(t[k])

\* unicode.ToLower on one character
LowerChar(c) ==
    IF \E i \in 1..Len(Upper) : Upper[i] = c
    THEN Lower[CHOOSE i \in 1..Len(Upper) : Upper[i] = c]
    ELSE c

\* strings.ToLower
ToLower(s) == [i \in 1..Len(s) |-> LowerChar(s[i])]

\* filepath.Ext: the suffix beginning at the final dot of the final path element
Ext(path) ==
    LET dots == {i \in 1..Len(path) :
                    /\ path[i] = "."
                    /\ \A j \in i..Len(path) : path[j] # "/"}
    IN IF dots = {} THEN <<>>
       ELSE LET i == CHOOSE x \in dots : \A y \in dots : y <= x
            IN SubSeq(path, i, Len(path))

\* strings.HasSuffix / strings.TrimSuffix
HasSuffix(s, suffix) ==
    /\ Len(suffix) <= Len(s)
    /\ SubSeq(s, Len(s) - Len(suffix) + 1, Len(s)) = suffix

TrimSuffix(s, suffix) ==
    IF HasSuffix(s, suffix) THEN SubSeq(s, 1, Len(s) - Len(suffix)) ELSE s

RECURSIVE Repeat(_, _)
Repeat(c, n) == IF n = 0 THEN <<>> ELSE <<c>> \o Repeat(c, n - 1)

DotMp4 == <<".", "m", "p", "4">>
DotWebm == <<".", "w", "e", "b", "m">>

\* models.DownloadFormat.String
FormatString(format) ==
    CASE format = "DownloadFormatMP4" -> <<"m", "p", "4">>
      [] format = "DownloadFormatWebm" -> <<"w", "e", "b", "m">>
      [] OTHER -> <<"u", "n", "k", "n", "o", "w", "n">>

\* fmt.Sprintf("%s.%s", id, ext)
FileOf(id, ext) == id \o <<".">> \o ext

\* a Base that leaves the directory in place
Base_Whole(path) == path

\* filepath.Base of a path that does not end in a separator: what follows
\* the last separator
Base(path) ==
    LET seps == {i \in 1..Len(path) : path[i] = "/"}
    IN IF seps = {} THEN path
       ELSE SubSeq(path, (CHOOSE i \in seps : \A j \in seps : j <= i) + 1, Len(path))

----------------------------------------------------------------------------
(* Maps (Go maps: functions with a finite, changing domain) *)

EmptyMap == [x \in {} |-> 0]

MapPut(m, k, v) == [x \in (DOMAIN m) \cup {k} |-> IF x = k THEN v ELSE m[x]]

MapDel(m, k) == [x \in (DOMAIN m) \ {k} |-> m[x]]

----------------------------------------------------------------------------
(* Cache Manager: internal/cache/manager.go *)

\* the observation left by an operation
Obs(op, id, file, err, evicted) ==
    [op |-> op, id |-> id, file |-> file, err |-> err, evicted |-> evicted]

\* models.CacheEntry (Created, which no operation reads, is left out)
CacheEntry(id, filename, size, lastAccess) ==
    [ID |-> id, FileName |-> filename, Size |-> size, LastAccess |-> lastAccess]

\* os.Stat succeeds
FileExists(d, f) == f \in DOMAIN d

\* os.Remove fails on a file that exists and cannot be removed (one that
\* another process holds open, say); on a file that does not exist its error
\* is "not exist"
RemoveFails(d, f) == FileExists(d, f) /\ f \in locked

\* the directory after os.Remove
RemoveFile(d, f) == IF RemoveFails(d, f) THEN d ELSE MapDel(d, f)

\* the loop of Manager.GetSize / evictIfNeeded: the sum of Size over the index
RECURSIVE SumSizes(_, _)
SumSizes(e, ids) ==
    IF ids = {} THEN 0
    ELSE LET id == CHOOSE x \in ids : TRUE
         IN e[id].Size + SumSizes(e, ids \ {id})

GetSize(e) == SumSizes(e, DOMAIN e)

\* a faulty GetEntry that never finds an entry (C12 does not hold of it)
GetEntryOk_Never(e, id) == FALSE

\* Manager.GetEntry succeeds
GetEntryOk(e, id) == id \in DOMAIN e

\* a faulty sort, newest entries first (C4 does not hold of it)
RECURSIVE SortedOrders_NewestFirst(_, _)
SortedOrders_NewestFirst(e, ids) ==
    IF ids = {} THEN {<<>>}
    ELSE UNION {
            {<<m>> \o rest : rest \in SortedOrders_NewestFirst(e, ids \ {m})} :
            m \in {x \in ids : \A y \in ids : ~(e[x].LastAccess < e[y].LastAccess)} }

\* sort.Slice(entries, LastAccess.Before) over the map's values: the map is
\* iterated in an unspecified order and the sort is not stable, so every
\* order in which no entry comes before a strictly older one is possible
RECURSIVE SortedOrders(_, _)
SortedOrders(e, ids) ==
    IF ids = {} THEN {<<>>}
    ELSE UNION {
            {<<m>> \o rest : rest \in SortedOrders(e, ids \ {m})} :
            m \in {x \in ids : \A y \in ids : ~(e[y].LastAccess < e[x].LastAccess)} }

\* the eviction loop of evictIfNeeded over one sorted order
RECURSIVE EvictLoop(_, _, _, _, _, _, _)
EvictLoop(order, i, e, d, currentSize, max, evicted) ==
    IF i > Len(order) \/ currentSize <= max
    THEN [entries |-> e, disk |-> d, evicted |-> evicted]
    ELSE LET entry == e[order[i]]
         IN EvictLoop(order, i + 1,
                      MapDel(e, entry.ID),
                      RemoveFile(d, entry.FileName),
                      currentSize - entry.Size,
                      max,
                      evicted \cup {[ID |-> entry.ID, LastAccess |-> entry.LastAccess]})

\* a faulty evictIfNeeded that evicts nothing (C3 does not hold of it)
evictIfNeeded_Never(e, d, max) == {[entries |-> e, disk |-> d, evicted |-> {}]}

\* Manager.evictIfNeeded: the possible results [entries, disk, evicted]
evictIfNeeded(e, d, max) ==
    IF max <= 0 \/ GetSize(e) <= max
    THEN {[entries |-> e, disk |-> d, evicted |-> {}]}
    ELSE {EvictLoop(order, 1, e, d, GetSize(e), max, {}) :
            order \in SortedOrders(e, DOMAIN e)}

\* Manager.AddEntry after a successful stat: the possible results
AddEntryResults(e, d, max, t, id, filename) ==
    evictIfNeeded(MapPut(e, id, CacheEntry(id, filename, d[filename].size, t)), d, max)

\* os.ReadDir: the directory's names in byte order
RECURSIVE ReadDir(_)
ReadDir(names) ==
    IF names = {} THEN <<>>
    ELSE LET m == CHOOSE x \in names : \A y \in names : x = y \/ StrLess(x, y)
         IN <<m>> \o ReadDir(names \ {m})

\* the body of Scan's loop for one directory entry (the model has no subdirectory)
ScanOne(e, d, filename) ==
    LET ext == ToLower(Ext(filename))
        id == TrimSuffix(filename, ext)
    IN IF ext # DotMp4 /\ ext # DotWebm
       THEN e
       ELSE MapPut(e, id, CacheEntry(id, filename, d[filename].size, d[filename].mtime))

RECURSIVE ScanLoop(_, _, _, _)
ScanLoop(files, i, e, d) ==
    IF i > Len(files) THEN e
    ELSE ScanLoop(files, i + 1, ScanOne(e, d, files[i]), d)

\* Manager.Scan: the possible results [entries, disk, evicted]
ScanResults(e, d, max) ==
    evictIfNeeded(ScanLoop(ReadDir(DOMAIN d), 1, e, d), d, max)

\* Manager.Clear: every indexed file removed, the index emptied
RECURSIVE ClearLoop(_, _, _)
ClearLoop(e, d, ids) ==
    IF ids = {} THEN [entries |-> e, disk |-> d]
    ELSE LET id == CHOOSE x \in ids : TRUE
         IN ClearLoop(MapDel(e, id), RemoveFile(d, e[id].FileName), ids \ {id})

(* The operations as actions *)

AddEntry(id, filename) ==
    /\ IF ~FileExists(disk, filename)
       THEN /\ UNCHANGED <<entries, disk>>
            /\ last' = Obs("AddEntry", id, filename, "stat", {})
       ELSE \E r \in AddEntryResults(entries, disk, maxSizeBytes, now, id, filename) :
               /\ entries' = r.entries
               /\ disk' = r.disk
               /\ last' = Obs("AddEntry", id, filename, "nil", r.evicted)
    /\ UNCHANGED <<maxSizeBytes, now>>
    /\ UNCHANGED dlVars

DeleteEntry(id) ==
    /\ IF id \notin DOMAIN entries
       THEN /\ UNCHANGED <<entries, disk>>
            /\ last' = Obs("DeleteEntry", <<>>, <<>>, "ErrEntryNotFound", {})
       ELSE IF RemoveFails(disk, entries[id].FileName)
       THEN /\ UNCHANGED <<entries, disk>>
            /\ last' = Obs("DeleteEntry", <<>>, <<>>, "failed to delete file", {})
       ELSE /\ disk' = RemoveFile(disk, entries[id].FileName)
            /\ entries' = MapDel(entries, id)
            /\ last' = Obs("DeleteEntry", <<>>, <<>>, "nil", {})
    /\ UNCHANGED <<maxSizeBytes, now>>
    /\ UNCHANGED dlVars

Clear ==
    /\ LET r == ClearLoop(entries, disk, DOMAIN entries)
       IN /\ entries' = r.entries
          /\ disk' = r.disk
    /\ last' = Obs("Clear", <<>>, <<>>, "nil", {})
    /\ UNCHANGED <<maxSizeBytes, now>>
    /\ UNCHANGED dlVars

Scan ==
    /\ \E r \in ScanResults(entries, disk, maxSizeBytes) :
          /\ entries' = r.entries
          /\ disk' = r.disk
          /\ last' = Obs("Scan", <<>>, <<>>, "nil", r.evicted)
    /\ UNCHANGED <<maxSizeBytes, now>>
    /\ UNCHANGED dlVars

UpdateLastAccess(id) ==
    /\ IF id \notin DOMAIN entries
       THEN /\ UNCHANGED <<entries, disk>>
            /\ last' = Obs("UpdateLastAccess", <<>>, <<>>, "ErrEntryNotFound", {})
       ELSE LET f == entries[id].FileName
            IN /\ entries' = [entries EXCEPT ![id].LastAccess = now]
               /\ disk' = IF FileExists(disk, f)
                          THEN [disk EXCEPT ![f].mtime = now]
                          ELSE disk
               /\ last' = Obs("UpdateLastAccess", <<>>, <<>>, "nil", {})
    /\ UNCHANGED <<maxSizeBytes, now>>
    /\ UNCHANGED dlVars

(* The environment of the cache *)

\* time passes
Tick ==
    /\ now < MaxClock
    /\ now' = now + 1
    /\ last' = Obs("Tick", <<>>, <<>>, "nil", {})
    /\ UNCHANGED <<entries, disk, maxSizeBytes>>
    /\ UNCHANGED dlVars

\* the file names some entry of the index refers to
IndexedFiles(e) == {e[id].FileName : id \in DOMAIN e}

\* a download (or a test's os.WriteFile) leaves a file in the cache directory;
\* files of index entries are not rewritten from outside
WriteFile(filename, size) ==
    /\ filename \notin IndexedFiles(entries)
    /\ disk' = MapPut(disk, filename, [size |-> size, mtime |-> now])
    /\ last' = Obs("WriteFile", <<>>, <<>>, "nil", {})
    /\ UNCHANGED <<entries, maxSizeBytes, now>>
    /\ UNCHANGED dlVars

----------------------------------------------------------------------------
(* Downloader: internal/downloader/downloader.go *)

\* NewDownloader(config, cache, 2) in NewServer; also the default for maxWorkers <= 0
maxWorkers == 2

NoReq == [VideoID |-> <<>>, Format |-> "none", Status |-> "none", Error |-> FALSE,
          FinishedAt |-> FALSE]

\* the DownloadRequest built by Queue (URL, limits, QueuedAt and StartedAt are
\* not modelled; FinishedAt is whether the field was set: time.Now() is never
\* the zero time)
NewRequest(videoID, format) ==
    [VideoID |-> videoID, Format |-> format, Status |-> "StatusQueued", Error |-> FALSE,
     FinishedAt |-> FALSE]

\* the observation left by a Downloader operation
DlObs(op, id, err, appended) ==
    [op |-> op, id |-> id, file |-> <<>>, err |-> err, evicted |-> {}, appended |-> appended]

\* the steps whose result no property reads leave this
NoDlObs == DlObs("none", <<>>, "none", FALSE)

NoCount == [accepted |-> 0, runs |-> 0, adds |-> 0]

Count(id) == IF id \in DOMAIN hist.req THEN hist.req[id] ELSE NoCount

Counted(id, field) ==
    [hist EXCEPT !.req = MapPut(hist.req, id, [Count(id) EXCEPT ![field] = @ + 1])]

\* a faulty Queue that does not look into d.active (C1 does not hold of it)
IsActive_Never(a, videoID) == FALSE

\* a faulty Queue that does not look through d.queue (C2 does not hold of it)
InQueue_NoScan(q, videoID) == FALSE

\* Queue's lookup in d.active
IsActive(a, videoID) == videoID \in DOMAIN a

\* the loop of Queue over d.queue: some queued request has this id
InQueue(q, videoID) == \E i \in 1..Len(q) : q[i].VideoID = videoID

\* sync.WaitGroup as NewDownloader leaves it: counter v and waiters w of its
\* state, the semaphore the waiters sleep on, and the panic it has raised
NewWaitGroup == [v |-> 0, w |-> 0, sema |-> 0, panic |-> "none"]

\* the panics of sync.WaitGroup; no caller recovers, the process ends
ReusedBeforeWait == "sync: WaitGroup is reused before previous Wait has returned"
AddDuringWait == "sync: WaitGroup misuse: Add called concurrently with Wait"

\* no panic has ended the process
Alive == wg.panic = "none"

\* workerWg.Done() of a returning worker: the Done that brings the counter to
\* 0 resets the state and releases the semaphore once for every waiter
Done(g) ==
    IF g.v = 1 /\ g.w > 0
    THEN [g EXCEPT !.v = 0, !.w = 0, !.sema = @ + g.w]
    ELSE [g EXCEPT !.v = @ - 1]

\* the Stop calls that have unlocked d.mu and not yet loaded the state in
\* workerWg.Wait(): all that have not returned but the waiters, asleep or
\* released
StopsAtWait == stopWaiting - wg.w - wg.sema

\* Downloader.Start; "StartRunning" is the observation of a Start that found
\* the downloader running and did nothing. workerWg.Add(1) of a Start that
\* runs while the Done which released the waiters is not over finds waiters
\* at a counter equal to its delta and panics
Start ==
    /\ IF running
       THEN /\ UNCHANGED <<ctxGen, running, wg, workers, hist>>
            /\ last' = DlObs("StartRunning", <<>>, "nil", FALSE)
       ELSE /\ ctxGen < MaxStarts
            /\ ctxGen' = ctxGen + 1
            /\ running' = TRUE
            /\ \/ /\ wg' = [wg EXCEPT !.v = @ + maxWorkers]
                  /\ workers' = [w \in (DOMAIN workers) \cup {<<ctxGen + 1, i>> : i \in 1..maxWorkers} |->
                                   IF w \in DOMAIN workers THEN workers[w]
                                   ELSE [pc |-> "check", req |-> NoReq, seen |-> ctxGen + 1,
                                         cmdCtx |-> 0, err |-> FALSE]]
                  /\ hist' = [hist EXCEPT !.stopReturned = FALSE]
                  /\ last' = DlObs("Start", <<>>, "nil", FALSE)
               \/ /\ wg.v = 0
                  /\ wg.sema > 0
                  /\ wg' = [wg EXCEPT !.v = 1, !.panic = AddDuringWait]
                  /\ UNCHANGED <<workers, hist>>
                  /\ last' = DlObs("Start", <<>>, "panic", FALSE)
    /\ UNCHANGED <<queue, active, cancelled, stopWaiting>>
    /\ UNCHANGED cacheVars

\* Downloader.Stop up to the call of workerWg.Wait(); a Stop on a stopped
\* downloader returns at once
StopBegin ==
    /\ IF ~running
       THEN /\ UNCHANGED <<running, cancelled, stopWaiting>>
            /\ hist' = [hist EXCEPT !.stopReturned = TRUE]
            /\ last' = DlObs("Stop", <<>>, "nil", FALSE)
       ELSE /\ cancelled' = cancelled \cup {ctxGen}
            /\ running' = FALSE
            /\ stopWaiting' = stopWaiting + 1
            /\ hist' = hist
            /\ last' = NoDlObs
    /\ UNCHANGED <<queue, active, ctxGen, wg, workers>>
    /\ UNCHANGED cacheVars

\* a faulty Stop that returns without waiting for the workers (C10 does not hold
\* of it)
StopReturn_NoWait ==
    /\ StopsAtWait > 0
    /\ stopWaiting' = stopWaiting - 1
    /\ hist' = [hist EXCEPT !.stopReturned = TRUE]
    /\ last' = DlObs("Stop", <<>>, "nil", FALSE)
    /\ UNCHANGED <<queue, active, running, ctxGen, cancelled, wg, workers>>
    /\ UNCHANGED cacheVars

\* Downloader.Stop in workerWg.Wait(): the counter is not 0, Wait adds a
\* waiter to the state and sleeps on the semaphore
StopWait ==
    /\ StopsAtWait > 0
    /\ wg.v > 0
    /\ wg' = [wg EXCEPT !.w = @ + 1]
    /\ last' = NoDlObs
    /\ UNCHANGED <<queue, active, running, ctxGen, cancelled, workers, stopWaiting, hist>>
    /\ UNCHANGED cacheVars

\* Downloader.Stop: workerWg.Wait() returns and Stop returns nil, Wait having
\* found the counter 0 when it was called, or having been released and found
\* the state 0; a released Wait that finds another state panics
StopReturn ==
    /\ \/ /\ StopsAtWait > 0
          /\ wg.v = 0
          /\ wg' = wg
          /\ stopWaiting' = stopWaiting - 1
          /\ hist' = [hist EXCEPT !.stopReturned = TRUE]
          /\ last' = DlObs("Stop", <<>>, "nil", FALSE)
       \/ /\ wg.sema > 0
          /\ wg.v = 0 /\ wg.w = 0
          /\ wg' = [wg EXCEPT !.sema = @ - 1]
          /\ stopWaiting' = stopWaiting - 1
          /\ hist' = [hist EXCEPT !.stopReturned = TRUE]
          /\ last' = DlObs("Stop", <<>>, "nil", FALSE)
       \/ /\ wg.sema > 0
          /\ ~(wg.v = 0 /\ wg.w = 0)
          /\ wg' = [wg EXCEPT !.panic = ReusedBeforeWait]
          /\ UNCHANGED <<stopWaiting, hist>>
          /\ last' = DlObs("Stop", <<>>, "panic", FALSE)
    /\ UNCHANGED <<queue, active, running, ctxGen, cancelled, workers>>
    /\ UNCHANGED cacheVars

\* a faulty Queue that does not look at d.running (C11 does not hold of it)
Queue_IgnoresRunning(videoID, format) ==
    /\ Count(videoID).accepted < MaxQueueCalls
    /\ IF IsActive(active, videoID) \/ InQueue(queue, videoID)
       THEN /\ UNCHANGED <<queue, hist>>
            /\ last' = DlObs("Queue", videoID, "ErrAlreadyQueued", FALSE)
       ELSE IF GetEntryOk(entries, videoID)
       THEN /\ UNCHANGED <<queue, hist>>
            /\ last' = DlObs("Queue", videoID, "nil", FALSE)
       ELSE /\ queue' = Append(queue, NewRequest(videoID, format))
            /\ hist' = Counted(videoID, "accepted")
            /\ last' = DlObs("Queue", videoID, "nil", TRUE)
    /\ UNCHANGED <<active, running, ctxGen, cancelled, wg, workers, stopWaiting>>
    /\ UNCHANGED cacheVars

\* Downloader.Queue
Queue(videoID, format) ==
    /\ Count(videoID).accepted < MaxQueueCalls
    /\ IF ~running
       THEN /\ UNCHANGED <<queue, hist>>
            /\ last' = DlObs("Queue", videoID, "ErrDownloaderStopped", FALSE)
       ELSE IF IsActive(active, videoID)
       THEN /\ UNCHANGED <<queue, hist>>
            /\ last' = DlObs("Queue", videoID, "ErrAlreadyQueued", FALSE)
       ELSE IF InQueue(queue, videoID)
       THEN /\ UNCHANGED <<queue, hist>>
            /\ last' = DlObs("Queue", videoID, "ErrAlreadyQueued", FALSE)
       ELSE IF GetEntryOk(entries, videoID)
       THEN /\ UNCHANGED <<queue, hist>>
            /\ last' = DlObs("Queue", videoID, "nil", FALSE)
       ELSE /\ queue' = Append(queue, NewRequest(videoID, format))
            /\ hist' = Counted(videoID, "accepted")
            /\ last' = DlObs("Queue", videoID, "nil", TRUE)
    /\ UNCHANGED <<active, running, ctxGen, cancelled, wg, workers, stopWaiting>>
    /\ UNCHANGED cacheVars

\* the result of GetStatus: a copy of the request, or "video not found"
StatusObs(id, err, req) ==
    [op |-> "GetStatus", id |-> id, file |-> <<>>, err |-> err, evicted |-> {},
     appended |-> FALSE, req |-> req]

\* the first request of the queue with this id
QueuedRequest(q, videoID) ==
    q[CHOOSE i \in 1..Len(q) :
         q[i].VideoID = videoID /\ \A j \in 1..(i - 1) : q[j].VideoID # videoID]

\* GetStatus copies *req under d.mu.RLock while the worker that holds the
\* request writes its fields without the lock: each field of the copy is the
\* value in memory or the one the worker writes while the copy is made
RacyCopies(w) ==
    LET req == workers[w].req
        pc == workers[w].pc
        final == IF workers[w].err THEN "StatusFailed" ELSE "StatusCompleted"
        finished == {req.FinishedAt} \cup (IF pc = "settle" THEN {TRUE} ELSE {})
        status == {req.Status}
                     \cup (IF pc = "process" THEN {"StatusDownloading"} ELSE {})
                     \cup (IF pc \in {"settle", "status"} THEN {final} ELSE {})
        error == {req.Error}
                    \cup (IF pc \in {"settle", "status", "error"} /\ workers[w].err
                          THEN {TRUE} ELSE {})
    IN {[req EXCEPT !.FinishedAt = f, !.Status = st, !.Error = e] :
           f \in finished, st \in status, e \in error}

\* a faulty GetStatus that looks into d.active only (C34 does not hold of it)
GetStatus_ActiveOnly(videoID) ==
    /\ IF IsActive(active, videoID)
       THEN \E copy \in RacyCopies(active[videoID]) :
               last' = StatusObs(videoID, "nil", copy)
       ELSE last' = StatusObs(videoID, "video not found", NoReq)
    /\ UNCHANGED dlVars
    /\ UNCHANGED cacheVars

\* Downloader.GetStatus: a copy of the request in d.active, else of the first
\* one in d.queue with this id, else an error
GetStatus(videoID) ==
    /\ IF IsActive(active, videoID)
       THEN \E copy \in RacyCopies(active[videoID]) :
               last' = StatusObs(videoID, "nil", copy)
       ELSE IF InQueue(queue, videoID)
       THEN last' = StatusObs(videoID, "nil", QueuedRequest(queue, videoID))
       ELSE last' = StatusObs(videoID, "video not found", NoReq)
    /\ UNCHANGED dlVars
    /\ UNCHANGED cacheVars

\* a read of d.ctx outside the mutex: the worker sees the context it last
\* synchronised with, or any later one
CtxReads(w) == workers[w].seen .. ctxGen

\* worker: select on d.ctx.Done(); return (deferred workerWg.Done) or go on to dequeue
WorkerCheck(w) ==
    /\ w \in DOMAIN workers
    /\ workers[w].pc = "check"
    /\ \E g \in CtxReads(w) :
          IF g \in cancelled
          THEN /\ workers' = MapDel(workers, w)
               /\ wg' = Done(wg)
          ELSE /\ workers' = [workers EXCEPT ![w].pc = "dequeue"]
               /\ wg' = wg
    /\ last' = NoDlObs
    /\ UNCHANGED <<queue, active, running, ctxGen, cancelled, stopWaiting, hist>>
    /\ UNCHANGED cacheVars

\* a faulty worker that takes the head of the queue and forgets it (C36 does
\* not hold of it)
WorkerDequeue_DropsHead(w) ==
    /\ w \in DOMAIN workers
    /\ workers[w].pc = "dequeue"
    /\ workers' = [workers EXCEPT ![w].pc = "check", ![w].seen = ctxGen]
    /\ queue' = IF Len(queue) = 0 THEN queue ELSE Tail(queue)
    /\ last' = NoDlObs
    /\ UNCHANGED <<active, hist, running, ctxGen, cancelled, wg, stopWaiting>>
    /\ UNCHANGED cacheVars

\* a faulty dequeue that takes the request queued last (C35 does not hold of it)
WorkerDequeue_TakesLast(w) ==
    /\ w \in DOMAIN workers
    /\ workers[w].pc = "dequeue"
    /\ IF Len(queue) = 0
       THEN /\ workers' = [workers EXCEPT ![w].pc = "check", ![w].seen = ctxGen]
            /\ UNCHANGED <<queue, active, hist>>
       ELSE /\ queue' = SubSeq(queue, 1, Len(queue) - 1)
            /\ active' = MapPut(active, queue[Len(queue)].VideoID, w)
            /\ workers' = [workers EXCEPT ![w].pc = "process", ![w].seen = ctxGen,
                                          ![w].req = queue[Len(queue)]]
            /\ hist' = Counted(queue[Len(queue)].VideoID, "runs")
    /\ last' = NoDlObs
    /\ UNCHANGED <<running, ctxGen, cancelled, wg, stopWaiting>>
    /\ UNCHANGED cacheVars

\* Downloader.dequeue as called by the worker; an empty queue sends the worker
\* back to the check after its sleep
WorkerDequeue(w) ==
    /\ w \in DOMAIN workers
    /\ workers[w].pc = "dequeue"
    /\ IF Len(queue) = 0
       THEN /\ workers' = [workers EXCEPT ![w].pc = "check", ![w].seen = ctxGen]
            /\ UNCHANGED <<queue, active, hist>>
       ELSE /\ queue' = Tail(queue)
            /\ active' = MapPut(active, Head(queue).VideoID, w)
            /\ workers' = [workers EXCEPT ![w].pc = "process", ![w].seen = ctxGen,
                                          ![w].req = Head(queue)]
            /\ hist' = Counted(Head(queue).VideoID, "runs")
    /\ last' = NoDlObs
    /\ UNCHANGED <<running, ctxGen, cancelled, wg, stopWaiting>>
    /\ UNCHANGED cacheVars

\* processDownload: Status = StatusDownloading; executeDownload starts the
\* resolver under d.ctx
WorkerProcess(w) ==
    /\ w \in DOMAIN workers
    /\ workers[w].pc = "process"
    /\ \E g \in CtxReads(w) :
          workers' = [workers EXCEPT ![w].pc = "exec",
                                     ![w].req.Status = "StatusDownloading",
                                     ![w].cmdCtx = g]
    /\ last' = NoDlObs
    /\ UNCHANGED <<queue, active, running, ctxGen, cancelled, wg, stopWaiting, hist>>
    /\ UNCHANGED cacheVars


\* the output template of executeDownload: <id>.<ext>
OutputFile(req) == FileOf(req.VideoID, FormatString(req.Format))

\* the sizes of the files the resolver writes
ResolverSizes == {1000, 3000}

\* executeDownload: cmd.CombinedOutput() returns. The resolver exits 0 having
\* written the output file, or exits 0 without it, or fails (which is the only
\* outcome once its context is cancelled)
ResolverExit(w) ==
    /\ w \in DOMAIN workers
    /\ workers[w].pc = "exec"
    /\ \/ /\ workers[w].cmdCtx \notin cancelled
          /\ \E size \in ResolverSizes :
                disk' = MapPut(disk, OutputFile(workers[w].req), [size |-> size, mtime |-> now])
          /\ workers' = [workers EXCEPT ![w].pc = "register"]
       \/ /\ workers[w].cmdCtx \notin cancelled
          /\ disk' = disk
          /\ workers' = [workers EXCEPT ![w].pc = "register"]
       \/ /\ disk' = disk
          /\ workers' = [workers EXCEPT ![w].pc = "settle", ![w].err = TRUE]
    /\ last' = NoDlObs
    /\ UNCHANGED <<entries, maxSizeBytes, now>>
    /\ UNCHANGED <<queue, active, running, ctxGen, cancelled, wg, stopWaiting, hist>>

\* executeDownload: filename := filepath.Base(outputTemplate), then
\* d.cache.AddEntry(req.VideoID, filename). For an id with a separator the
\* name registered is not the path the resolver wrote
WorkerRegister(w) ==
    /\ w \in DOMAIN workers
    /\ workers[w].pc = "register"
    /\ LET id == workers[w].req.VideoID
           filename == Base(OutputFile(workers[w].req))
       IN /\ IF ~FileExists(disk, filename)
             THEN /\ UNCHANGED <<entries, disk>>
                  /\ workers' = [workers EXCEPT ![w].pc = "settle", ![w].err = TRUE]
                  /\ last' = NoDlObs
             ELSE \E r \in AddEntryResults(entries, disk, maxSizeBytes, now, id, filename) :
                     /\ entries' = r.entries
                     /\ disk' = r.disk
                     /\ workers' = [workers EXCEPT ![w].pc = "settle", ![w].err = FALSE]
                     /\ last' = NoDlObs
          /\ hist' = Counted(id, "adds")
    /\ UNCHANGED <<maxSizeBytes, now>>
    /\ UNCHANGED <<queue, active, running, ctxGen, cancelled, wg, stopWaiting>>

\* processDownload after executeDownload writes the request, which d.active
\* points to, field by field and without a lock: first req.FinishedAt
WorkerSettle(w) ==
    /\ w \in DOMAIN workers
    /\ workers[w].pc = "settle"
    /\ workers' = [workers EXCEPT ![w].pc = "status", ![w].req.FinishedAt = TRUE]
    /\ last' = NoDlObs
    /\ UNCHANGED <<queue, active, running, ctxGen, cancelled, wg, stopWaiting, hist>>
    /\ UNCHANGED cacheVars

\* processDownload: then req.Status, StatusFailed when executeDownload
\* returned an error (req.Error follows) and StatusCompleted otherwise
WorkerSettleStatus(w) ==
    /\ w \in DOMAIN workers
    /\ workers[w].pc = "status"
    /\ workers' = [workers EXCEPT
                      ![w].pc = IF workers[w].err THEN "error" ELSE "finish",
                      ![w].req.Status = IF workers[w].err THEN "StatusFailed"
                                        ELSE "StatusCompleted"]
    /\ last' = NoDlObs
    /\ UNCHANGED <<queue, active, running, ctxGen, cancelled, wg, stopWaiting, hist>>
    /\ UNCHANGED cacheVars

\* processDownload: req.Error = err, on the failure path
WorkerSettleError(w) ==
    /\ w \in DOMAIN workers
    /\ workers[w].pc = "error"
    /\ workers' = [workers EXCEPT ![w].pc = "finish", ![w].req.Error = TRUE]
    /\ last' = NoDlObs
    /\ UNCHANGED <<queue, active, running, ctxGen, cancelled, wg, stopWaiting, hist>>
    /\ UNCHANGED cacheVars

\* processDownload's deferred delete(d.active, req.VideoID); the worker loops
WorkerFinish(w) ==
    /\ w \in DOMAIN workers
    /\ workers[w].pc = "finish"
    /\ active' = MapDel(active, workers[w].req.VideoID)
    /\ workers' = [workers EXCEPT ![w].pc = "check", ![w].req = NoReq, ![w].err = FALSE,
                                  ![w].cmdCtx = 0, ![w].seen = ctxGen]
    /\ last' = NoDlObs
    /\ UNCHANGED <<queue, running, ctxGen, cancelled, wg, stopWaiting, hist>>
    /\ UNCHANGED cacheVars

----------------------------------------------------------------------------
(* Server and stub before anything is asked of them *)

\* NewServer: not running, no listener; no request is being handled and the
\* stub has not been run
NoHandler ==
    [pc |-> "idle", url |-> "", avpro |-> "", id |-> <<>>, path |-> <<>>,
     format |-> "none", running |-> FALSE, cacheSize |-> 0]
NoReply == [op |-> "none"]
\* no cookies were posted yet
NoCookies == [exists |-> FALSE, data |-> <<>>]
\* the goroutines net/http runs handleYouTubeCookies in, one for each request
\* that is being handled
PostIds == 1..MaxPosts
NoPost == [pc |-> "idle", body |-> <<>>, err |-> FALSE]
NoPosts == [p \in PostIds |-> NoPost]
InitServer ==
    /\ srv = [running |-> FALSE, http |-> "none", pc |-> "idle"]
    /\ handler = NoHandler
    /\ reply = NoReply
    /\ stub = [pc |-> "none"]
    /\ cookies = NoCookies
    /\ posts = NoPosts
    /\ locked = {}

----------------------------------------------------------------------------
(* The Downloader with its cache: every interleaving of Start, Stop, Queue
   and the steps of the workers *)

DlIds == {<<"a">>, <<"b">>}

\* the Queue calls made: one id asked for as mp4, the other as webm
QueueCalls == {<<(<<"a">>), "DownloadFormatMP4">>, <<(<<"b">>), "DownloadFormatWebm">>}
DlBudgets == {0, 2000}
WorkerIds == {<<g, i>> : g \in 1..MaxStarts, i \in 1..maxWorkers}

InitDl ==
    /\ maxSizeBytes \in DlBudgets
    /\ disk = EmptyMap
    /\ entries = EmptyMap
    /\ now = 0
    /\ last = NoDlObs
    /\ queue = <<>>
    /\ active = EmptyMap
    /\ running = FALSE
    /\ ctxGen = 0
    /\ cancelled = {}
    /\ wg = NewWaitGroup
    /\ workers = EmptyMap
    /\ stopWaiting = 0
    /\ hist = [req |-> EmptyMap, stopReturned |-> FALSE]
    /\ InitServer

\* Start and Stop are called by one owner at a time: Server.Start and
\* Server.Stop hold s.mu around them
LifecycleIdle == stopWaiting = 0

NextDl ==
    \/ LifecycleIdle /\ Start /\ UNCHANGED apiVars
    \/ LifecycleIdle /\ StopBegin /\ UNCHANGED apiVars
    \/ StopWait /\ UNCHANGED apiVars
    \/ StopReturn /\ UNCHANGED apiVars
    \/ \E call \in QueueCalls : Queue(call[1], call[2]) /\ UNCHANGED apiVars
    \/ \E w \in WorkerIds : WorkerCheck(w) /\ UNCHANGED apiVars
    \/ \E w \in WorkerIds : WorkerDequeue(w) /\ UNCHANGED apiVars
    \/ \E w \in WorkerIds : WorkerProcess(w) /\ UNCHANGED apiVars
    \/ \E w \in WorkerIds : ResolverExit(w) /\ UNCHANGED apiVars
    \/ \E w \in WorkerIds : WorkerRegister(w) /\ UNCHANGED apiVars
    \/ \E w \in WorkerIds : WorkerSettle(w) /\ UNCHANGED apiVars
    \/ \E w \in WorkerIds : WorkerSettleStatus(w) /\ UNCHANGED apiVars
    \/ \E w \in WorkerIds : WorkerSettleError(w) /\ UNCHANGED apiVars
    \/ \E w \in WorkerIds : WorkerFinish(w) /\ UNCHANGED apiVars

SpecDl == InitDl /\ [][NextDl]_vars

----------------------------------------------------------------------------
(* The cache Manager on its own: every sequence of its operations *)

IdA == <<"a">>
IdB == <<"b">>
IdC == <<"c">>

CacheIds == {IdA, IdB, IdC}
FileA == FileOf(IdA, FormatString("DownloadFormatMP4"))
FileB == FileOf(IdB, FormatString("DownloadFormatMP4"))
FileC == FileOf(IdC, FormatString("DownloadFormatMP4"))

\* the files written to the directory, with the sizes they are written with
CacheFiles == {FileA, FileB, FileC}
FileSizes(f) == IF f = FileC THEN {1000, 3000} ELSE {1000}

\* the AddEntry calls made: each id under its own file name, and one id also
\* under the file name of another (two ids with one file name, one id
\* registered again under a second file name)
Registrations == {<<IdA, FileA>>, <<IdB, FileB>>, <<IdC, FileC>>, <<IdB, FileA>>}
Budgets == {0, 2000}

\* NewDownloader: nothing queued, nothing active, not running
InitDownloader ==
    /\ queue = <<>>
    /\ active = EmptyMap
    /\ running = FALSE
    /\ ctxGen = 0
    /\ cancelled = {}
    /\ wg = NewWaitGroup
    /\ workers = EmptyMap
    /\ stopWaiting = 0
    /\ hist = [req |-> EmptyMap, stopReturned |-> FALSE]
    /\ InitServer

\* NewManager on an empty directory: the budget set, the (empty) directory scanned
InitCache ==
    /\ maxSizeBytes \in Budgets
    /\ disk = EmptyMap
    /\ entries = EmptyMap
    /\ now = 0
    /\ last = Obs("NewManager", <<>>, <<>>, "nil", {})
    /\ InitDownloader

NextCache ==
    \/ Tick /\ UNCHANGED apiVars
    \/ \E f \in CacheFiles : \E size \in FileSizes(f) : WriteFile(f, size) /\ UNCHANGED apiVars
    \/ \E reg \in Registrations : AddEntry(reg[1], reg[2]) /\ UNCHANGED apiVars
    \/ \E id \in CacheIds : DeleteEntry(id) /\ UNCHANGED apiVars
    \/ \E id \in CacheIds : UpdateLastAccess(id) /\ UNCHANGED apiVars
    \/ Clear /\ UNCHANGED apiVars
    \/ Scan /\ UNCHANGED apiVars

SpecCache == InitCache /\ [][NextCache]_vars

----------------------------------------------------------------------------
(* The cache Manager over a directory with a file that cannot be removed *)

LockedFiles == {FileA}

\* as InitCache, with a budget and with a.mp4 held open by another process
\* for as long as the Manager runs
InitLocked ==
    /\ maxSizeBytes = 2000
    /\ disk = EmptyMap
    /\ entries = EmptyMap
    /\ now = 0
    /\ last = Obs("NewManager", <<>>, <<>>, "nil", {})
    /\ queue = <<>>
    /\ active = EmptyMap
    /\ running = FALSE
    /\ ctxGen = 0
    /\ cancelled = {}
    /\ wg = NewWaitGroup
    /\ workers = EmptyMap
    /\ stopWaiting = 0
    /\ hist = [req |-> EmptyMap, stopReturned |-> FALSE]
    /\ srv = [running |-> FALSE, http |-> "none", pc |-> "idle"]
    /\ handler = NoHandler
    /\ reply = NoReply
    /\ stub = [pc |-> "none"]
    /\ cookies = NoCookies
    /\ posts = NoPosts
    /\ locked = LockedFiles

SpecLocked == InitLocked /\ [][NextCache]_vars

----------------------------------------------------------------------------
(* The running Downloader asked for the status of its requests *)

\* as InitDl, without a budget
InitStatus == InitDl /\ maxSizeBytes = 0

NextStatus ==
    \/ Start /\ UNCHANGED apiVars
    \/ \E call \in QueueCalls : Queue(call[1], call[2]) /\ UNCHANGED apiVars
    \/ \E id \in DlIds : GetStatus(id) /\ UNCHANGED apiVars
    \/ \E w \in WorkerIds : WorkerCheck(w) /\ UNCHANGED apiVars
    \/ \E w \in WorkerIds : WorkerDequeue(w) /\ UNCHANGED apiVars
    \/ \E w \in WorkerIds : WorkerProcess(w) /\ UNCHANGED apiVars
    \/ \E w \in WorkerIds : ResolverExit(w) /\ UNCHANGED apiVars
    \/ \E w \in WorkerIds : WorkerRegister(w) /\ UNCHANGED apiVars
    \/ \E w \in WorkerIds : WorkerSettle(w) /\ UNCHANGED apiVars
    \/ \E w \in WorkerIds : WorkerSettleStatus(w) /\ UNCHANGED apiVars
    \/ \E w \in WorkerIds : WorkerSettleError(w) /\ UNCHANGED apiVars
    \/ \E w \in WorkerIds : WorkerFinish(w) /\ UNCHANGED apiVars

SpecStatus == InitStatus /\ [][NextStatus]_vars

----------------------------------------------------------------------------
(* The Downloader with Start and Stop called from different goroutines: a
   Start may run while a Stop waits in workerWg.Wait() *)

RaceCalls == {<<(<<"a">>), "DownloadFormatMP4">>}

InitRace == InitDl /\ maxSizeBytes = 0

NextRace ==
    \/ Alive /\ Start /\ UNCHANGED apiVars
    \/ Alive /\ StopBegin /\ UNCHANGED apiVars
    \/ Alive /\ StopWait /\ UNCHANGED apiVars
    \/ Alive /\ StopReturn /\ UNCHANGED apiVars
    \/ Alive /\ \E call \in RaceCalls : Queue(call[1], call[2]) /\ UNCHANGED apiVars
    \/ Alive /\ \E w \in WorkerIds : WorkerCheck(w) /\ UNCHANGED apiVars
    \/ Alive /\ \E w \in WorkerIds : WorkerDequeue(w) /\ UNCHANGED apiVars
    \/ Alive /\ \E w \in WorkerIds : WorkerProcess(w) /\ UNCHANGED apiVars
    \/ Alive /\ \E w \in WorkerIds : ResolverExit(w) /\ UNCHANGED apiVars
    \/ Alive /\ \E w \in WorkerIds : WorkerRegister(w) /\ UNCHANGED apiVars
    \/ Alive /\ \E w \in WorkerIds : WorkerSettle(w) /\ UNCHANGED apiVars
    \/ Alive /\ \E w \in WorkerIds : WorkerSettleStatus(w) /\ UNCHANGED apiVars
    \/ Alive /\ \E w \in WorkerIds : WorkerSettleError(w) /\ UNCHANGED apiVars
    \/ Alive /\ \E w \in WorkerIds : WorkerFinish(w) /\ UNCHANGED apiVars

SpecRace == InitRace /\ [][NextRace]_vars

----------------------------------------------------------------------------
(* The running Downloader given an id with a separator, as the resolve
   endpoint extracts it from /embed/a/d: the resolver writes a/d.webm, a
   file in a subdirectory of the cache directory, named here by its path
   relative to the cache directory *)

IdD == <<"d">>
IdSlash == <<"a", "/", "d">>

SlashCalls == {<<IdD, "DownloadFormatWebm">>, <<IdSlash, "DownloadFormatWebm">>}

InitSlash == InitDl /\ maxSizeBytes = 0

NextSlash ==
    \/ Start /\ UNCHANGED apiVars
    \/ \E call \in SlashCalls : Queue(call[1], call[2]) /\ UNCHANGED apiVars
    \/ \E w \in WorkerIds : WorkerCheck(w) /\ UNCHANGED apiVars
    \/ \E w \in WorkerIds : WorkerDequeue(w) /\ UNCHANGED apiVars
    \/ \E w \in WorkerIds : WorkerProcess(w) /\ UNCHANGED apiVars
    \/ \E w \in WorkerIds : ResolverExit(w) /\ UNCHANGED apiVars
    \/ \E w \in WorkerIds : WorkerRegister(w) /\ UNCHANGED apiVars
    \/ \E w \in WorkerIds : WorkerSettle(w) /\ UNCHANGED apiVars
    \/ \E w \in WorkerIds : WorkerSettleStatus(w) /\ UNCHANGED apiVars
    \/ \E w \in WorkerIds : WorkerSettleError(w) /\ UNCHANGED apiVars
    \/ \E w \in WorkerIds : WorkerFinish(w) /\ UNCHANGED apiVars

SpecSlash == InitSlash /\ [][NextSlash]_vars

----------------------------------------------------------------------------
(* Scan on its own: NewManager over a directory that already holds files *)

LongStem64 == Repeat("x", 64)
LongStem65 == Repeat("y", 65)

ScanFiles == {
    <<"a">> \o DotMp4,
    <<"b">> \o DotWebm,
    <<"i","n","d","e","x",".","h","t","m","l">>,
    <<"y","o","u","t","u","b","e","_","c","o","o","k","i","e","s",".","t","x","t">>,
    <<"X",".","f","1","3","7">> \o DotMp4,
    <<"C",".","M","P","4">>,
    LongStem64 \o DotMp4,
    LongStem65 \o DotMp4 }

\* NewManager before its call of Scan: some files in the directory, the index empty
InitScan ==
    /\ maxSizeBytes = 0
    /\ \E names \in SUBSET ScanFiles :
          disk = [f \in names |-> [size |-> 1000, mtime |-> 0]]
    /\ entries = EmptyMap
    /\ now = 0
    /\ last = Obs("NewManager", <<>>, <<>>, "nil", {})
    /\ InitDownloader

NextScan == Scan /\ UNCHANGED apiVars

SpecScan == InitScan /\ [][NextScan]_vars

----------------------------------------------------------------------------
(* HTTP dispatcher: internal/api/handlers.go and server.go *)

\* strings.Contains
Contains(s, sub) ==
    \/ sub = <<>>
    \/ \E i \in 0..(Len(s) - Len(sub)) :
          s[i + 1] = sub[1] /\ SubSeq(s, i + 1, i + Len(sub)) = sub

\* strings.HasPrefix
HasPrefix(s, prefix) == Len(s) >= Len(prefix) /\ SubSeq(s, 1, Len(prefix)) = prefix

\* strings.TrimPrefix
TrimPrefix(s, prefix) ==
    IF HasPrefix(s, prefix) THEN SubSeq(s, Len(prefix) + 1, Len(s)) ELSE s

\* filepath.Join(dir, name) for a clean dir and a non-empty name
Join(dir, name) == dir \o <<"/">> \o name

\* a request URL as url.Parse gives it to the handler: whether it parsed, its
\* Hostname(), its Path and the value of its query key v; text is the raw URL
Url(text, ok, host, path, v) ==
    [text |-> text, ok |-> ok, host |-> host, path |-> path, v |-> v]

YouTubeCom == <<"y","o","u","t","u","b","e",".","c","o","m">>
YoutuBe == <<"y","o","u","t","u",".","b","e">>

\* isYouTubeURL
isYouTubeURL(u) ==
    IF u.text = "" THEN FALSE
    ELSE IF ~u.ok THEN FALSE
    ELSE Contains(u.host, YouTubeCom) \/ u.host = YoutuBe

\* extractYouTubeVideoID: [err, id]
extractYouTubeVideoID(u) ==
    LET found(id) == [err |-> "nil", id |-> id]
        notFound == [err |-> "ErrVideoIDNotFound", id |-> <<>>]
    IN IF ~u.ok THEN [err |-> "parse", id |-> <<>>]
       ELSE IF u.host = YoutuBe
       THEN IF TrimPrefix(u.path, <<"/">>) # <<>>
            THEN found(TrimPrefix(u.path, <<"/">>))
            ELSE notFound
       ELSE IF Contains(u.host, YouTubeCom)
       THEN IF u.path = <<"/","w","a","t","c","h">> /\ u.v # <<>>
            THEN found(u.v)
            ELSE IF HasPrefix(u.path, <<"/","e","m","b","e","d","/">>)
                    /\ TrimPrefix(u.path, <<"/","e","m","b","e","d","/">>) # <<>>
            THEN found(TrimPrefix(u.path, <<"/","e","m","b","e","d","/">>))
            ELSE IF HasPrefix(u.path, <<"/","v","/">>)
                    /\ TrimPrefix(u.path, <<"/","v","/">>) # <<>>
            THEN found(TrimPrefix(u.path, <<"/","v","/">>))
            ELSE notFound
       ELSE notFound

\* config.WebServerURL and the cache directory
WebServerURL == <<"u">>
CachePath == <<"c">>

\* Manager.GetFilePath for an indexed id
GetFilePath(e, id) == Join(CachePath, e[id].FileName)

\* the result of a handler of GET /api/getvideo: the response, and what the
\* handler did to produce it (the id it looked up, the path the cache gave,
\* the result of Queue and the format passed to it)
GetVideoReply(url, status, body, id, path, queued, format) ==
    [op |-> "getvideo", url |-> url, status |-> status, body |-> body,
     id |-> id, path |-> path, queued |-> queued, format |-> format]

\* the result of Server.Start or Server.Stop
ServerReply(op, err) == [op |-> op, err |-> err]

\* handleGetVideo up to and including s.cache.GetFilePath: the url is checked
\* and classified, avpro is parsed, the cache is asked for the id
GetVideoRequest(u, avproStr, source) ==
    /\ srv.http = "serving"
    /\ handler.pc = "idle"
    /\ LET avpro == ~(avproStr = "false")
           format == IF avpro THEN "DownloadFormatWebm" ELSE "DownloadFormatMP4"
           x == extractYouTubeVideoID(u)
       IN IF u.text = ""
          THEN /\ reply' = GetVideoReply(u.text, 400, "No URL provided", <<>>, <<>>, "none", "none")
               /\ handler' = handler
          ELSE IF ~isYouTubeURL(u) \/ x.err # "nil"
          THEN /\ reply' = GetVideoReply(u.text, 200, <<>>, <<>>, <<>>, "none", "none")
               /\ handler' = handler
          ELSE /\ reply' = NoReply
               /\ handler' = IF x.id \in DOMAIN entries
                             THEN [pc |-> "hit", url |-> u.text, avpro |-> avproStr, id |-> x.id,
                                   path |-> GetFilePath(entries, x.id), format |-> format]
                             ELSE [pc |-> "miss", url |-> u.text, avpro |-> avproStr, id |-> x.id,
                                   path |-> <<>>, format |-> format]
    /\ UNCHANGED <<srv, stub, cookies, posts, locked, last>>
    /\ UNCHANGED cacheVars
    /\ UNCHANGED dlVars

\* handleGetVideo, cache hit: UpdateLastAccess (its error ignored), then the
\* local URL is written
GetVideoHit ==
    /\ handler.pc = "hit"
    /\ UpdateLastAccess(handler.id)
    /\ reply' = GetVideoReply(handler.url, 200,
                              WebServerURL \o <<"/">> \o Base(handler.path),
                              handler.id, handler.path, "none", "none")
    /\ handler' = NoHandler
    /\ UNCHANGED <<srv, stub, cookies, posts, locked>>

\* a miss branch that reports a refused Queue call to the client
GetVideoMiss_FailsOnError ==
    /\ handler.pc = "miss"
    /\ Queue(handler.id, handler.format)
    /\ reply' = GetVideoReply(handler.url, IF last'.err = "nil" THEN 200 ELSE 500, <<>>,
                              handler.id, <<>>, last'.err, handler.format)
    /\ handler' = NoHandler
    /\ UNCHANGED <<srv, stub, cookies, posts, locked>>

\* a miss branch that answers the URL the download is going to have
GetVideoMiss_AnswersUrl ==
    /\ handler.pc = "miss"
    /\ Queue(handler.id, handler.format)
    /\ reply' = GetVideoReply(handler.url, 200,
                              WebServerURL \o <<"/">> \o handler.id \o <<".","m","p","4">>,
                              handler.id, <<>>, last'.err, handler.format)
    /\ handler' = NoHandler
    /\ UNCHANGED <<srv, stub, cookies, posts, locked>>

\* handleGetVideo, cache miss: Queue (its error only logged), then an empty
\* body is written
GetVideoMiss ==
    /\ handler.pc = "miss"
    /\ Queue(handler.id, handler.format)
    /\ reply' = GetVideoReply(handler.url, 200, <<>>,
                              handler.id, <<>>, last'.err, handler.format)
    /\ handler' = NoHandler
    /\ UNCHANGED <<srv, stub, cookies, posts, locked>>

\* Server.Start, under s.mu: refused on a running server; otherwise the
\* listener is created (which may fail), running is set, the downloader is
\* started and the server loop is launched
ServerStart ==
    /\ srv.pc = "idle"
    /\ \/ /\ srv.running
          /\ reply' = ServerReply("ServerStart", "ErrServerAlreadyRunning")
          /\ UNCHANGED <<srv, last>>
          /\ UNCHANGED cacheVars
          /\ UNCHANGED dlVars
       \/ /\ ~srv.running
          /\ reply' = ServerReply("ServerStart", "failed to create listener")
          /\ UNCHANGED <<srv, last>>
          /\ UNCHANGED cacheVars
          /\ UNCHANGED dlVars
       \/ /\ ~srv.running
          /\ Start
          /\ srv' = [srv EXCEPT !.running = TRUE, !.http = "serving"]
          /\ reply' = ServerReply("ServerStart", "nil")
    /\ UNCHANGED <<handler, stub, cookies, posts, locked>>

\* Server.Stop, under s.mu, up to the wait inside s.downloader.Stop(): refused
\* on a server that is not running
ServerStopBegin ==
    /\ srv.pc = "idle"
    /\ IF ~srv.running
       THEN /\ reply' = ServerReply("ServerStop", "ErrServerNotRunning")
            /\ UNCHANGED <<srv, last>>
            /\ UNCHANGED cacheVars
            /\ UNCHANGED dlVars
       ELSE /\ StopBegin
            /\ srv' = [srv EXCEPT !.pc = "stopDl"]
            /\ reply' = NoReply
    /\ UNCHANGED <<handler, stub, cookies, posts, locked>>

\* a faulty Server.Stop that cancels the workers and calls
\* s.server.Shutdown(ctx) without waiting for them (C30 does not hold of it)
ServerShutdown_NoWait ==
    /\ srv.pc = "stopDl"
    /\ \/ StopReturn_NoWait
       \/ /\ stopWaiting = 0
          /\ UNCHANGED last
          /\ UNCHANGED cacheVars
          /\ UNCHANGED dlVars
    /\ srv' = [srv EXCEPT !.pc = "shutdown", !.http = "closing"]
    /\ UNCHANGED <<handler, reply, stub, cookies, posts, locked>>

\* Server.Stop: s.downloader.Stop() returns and s.server.Shutdown(ctx) closes
\* the listener
ServerShutdown ==
    /\ srv.pc = "stopDl"
    /\ \/ StopReturn
       \/ /\ stopWaiting = 0
          /\ UNCHANGED last
          /\ UNCHANGED cacheVars
          /\ UNCHANGED dlVars
    /\ srv' = [srv EXCEPT !.pc = "shutdown", !.http = "closing"]
    /\ UNCHANGED <<handler, reply, stub, cookies, posts, locked>>

\* Server.Stop: Shutdown returns nil once no request is in flight, and the
\* server is marked stopped; or its 5-second deadline passes with a request
\* still in flight, and Stop returns the error with running left as it was
ServerStopEnd ==
    /\ srv.pc = "shutdown"
    /\ \/ /\ handler.pc = "idle"
          /\ srv' = [running |-> FALSE, http |-> "none", pc |-> "idle"]
          /\ reply' = ServerReply("ServerStop", "nil")
       \/ /\ handler.pc # "idle"
          /\ srv' = [srv EXCEPT !.http = "closed", !.pc = "idle"]
          /\ reply' = ServerReply("ServerStop", "server shutdown failed")
    /\ UNCHANGED <<handler, stub, cookies, posts, locked, last>>
    /\ UNCHANGED cacheVars
    /\ UNCHANGED dlVars

\* the result of a handler of GET /api/status (the version is not modelled)
StatusReply(isRunning, cacheSize, cacheCount) ==
    [op |-> "status", running |-> isRunning, cacheSize |-> cacheSize,
     cacheCount |-> cacheCount]

\* handleStatus: the request is taken up by the HTTP server and the handler
\* comes to s.mu.RLock()
handleStatusBegin ==
    /\ srv.http = "serving"
    /\ handler.pc = "idle"
    /\ handler' = [NoHandler EXCEPT !.pc = "statusLock"]
    /\ UNCHANGED <<srv, reply, stub, cookies, posts, locked, last>>
    /\ UNCHANGED cacheVars
    /\ UNCHANGED dlVars

\* handleStatus: s.mu.RLock(), running := s.running, s.mu.RUnlock(); the read
\* lock is granted when no Start or Stop holds s.mu
handleStatusRunning ==
    /\ handler.pc = "statusLock"
    /\ srv.pc = "idle"
    /\ handler' = [handler EXCEPT !.pc = "statusSize", !.running = srv.running]
    /\ UNCHANGED <<srv, reply, stub, cookies, posts, locked, last>>
    /\ UNCHANGED cacheVars
    /\ UNCHANGED dlVars

\* handleStatus: cacheSize := s.cache.GetSize(), under the cache's read lock
handleStatusSize ==
    /\ handler.pc = "statusSize"
    /\ handler' = [handler EXCEPT !.pc = "statusList", !.cacheSize = GetSize(entries)]
    /\ UNCHANGED <<srv, reply, stub, cookies, posts, locked, last>>
    /\ UNCHANGED cacheVars
    /\ UNCHANGED dlVars

\* handleStatus: cacheEntries := s.cache.ListEntries(), under the cache's
\* read lock taken anew, and the response is written from the three values
handleStatusEnd ==
    /\ handler.pc = "statusList"
    /\ reply' = StatusReply(handler.running, handler.cacheSize,
                            Cardinality(DOMAIN entries))
    /\ handler' = NoHandler
    /\ UNCHANGED <<srv, stub, cookies, posts, locked, last>>
    /\ UNCHANGED cacheVars
    /\ UNCHANGED dlVars

LoginInfo == <<"L","O","G","I","N","_","I","N","F","O">>

\* validateCookies
validateCookies(body) ==
    IF body = <<>> THEN FALSE
    ELSE IF ~Contains(body, YouTubeCom) THEN FALSE
    ELSE IF ~Contains(body, LoginInfo) THEN FALSE
    ELSE TRUE

\* the result of a handler of POST /api/youtube-cookies: the body posted, the
\* status and the text of the response (for 200, the message field of its JSON)
CookiesReply(posted, status, text) ==
    [op |-> "cookies", posted |-> posted, status |-> status, text |-> text]

\* http.Error(w, msg, code): the message and a newline
HttpError(msg) == msg \o <<"\n">>

MaxWritten == 1    \* a Write that fails has written at most this many bytes

\* the texts of the responses of the cookies handler
FailedToReadBody == <<"F","a","i","l","e","d"," ","t","o"," ","r","e","a","d"," ","b","o","d","y">>
InvalidCookies == <<"I","n","v","a","l","i","d"," ","c","o","o","k","i","e","s">>
FailedToSaveCookies ==
    <<"F","a","i","l","e","d"," ","t","o"," ","s","a","v","e"," ","c","o","o","k","i","e","s">>
CookiesReceived == <<"C","o","o","k","i","e","s"," ","r","e","c","e","i","v","e","d">>

\* f.Write(b) on a file just opened: the bytes replace the first Len(b)
\* bytes of the file, and what the file holds behind them stays
WriteAtStart(data, b) == b \o SubSeq(data, Len(b) + 1, Len(data))

\* handleYouTubeCookies up to the call of saveCookies, in the goroutine p of
\* its request and under no lock: io.ReadAll(r.Body) fails, or the body is
\* read and validated
handleYouTubeCookies(p, body) ==
    /\ srv.http = "serving"
    /\ posts[p].pc = "idle"
    /\ \/ /\ reply' = CookiesReply(body, 400, HttpError(FailedToReadBody))
          /\ posts' = posts
       \/ /\ ~validateCookies(body)
          /\ reply' = CookiesReply(body, 400, HttpError(InvalidCookies))
          /\ posts' = posts
       \/ /\ validateCookies(body)
          /\ reply' = reply
          /\ posts' = [posts EXCEPT ![p] = [pc |-> "open", body |-> body, err |-> FALSE]]
    /\ UNCHANGED <<srv, handler, stub, cookies, locked, last>>
    /\ UNCHANGED cacheVars
    /\ UNCHANGED dlVars

\* saveCookies, os.WriteFile(path, []byte(cookies), 0644): the file is opened
\* with O_WRONLY|O_CREATE|O_TRUNC, which creates it or empties it; when the
\* open fails the file is as it was, saveCookies returns the error and the
\* handler answers 500
saveCookiesOpen(p) ==
    /\ posts[p].pc = "open"
    /\ \/ /\ cookies' = [exists |-> TRUE, data |-> <<>>]
          /\ posts' = [posts EXCEPT ![p].pc = "write"]
          /\ reply' = reply
       \/ /\ cookies' = cookies
          /\ posts' = [posts EXCEPT ![p] = NoPost]
          /\ reply' = CookiesReply(posts[p].body, 500, HttpError(FailedToSaveCookies))
    /\ UNCHANGED <<srv, handler, stub, locked, last>>
    /\ UNCHANGED cacheVars
    /\ UNCHANGED dlVars

\* os.WriteFile: f.Write(data) writes the body from the start of the file,
\* or fails having written its first bytes (at most MaxWritten of them)
saveCookiesWrite(p) ==
    /\ posts[p].pc = "write"
    /\ \/ /\ cookies' = [cookies EXCEPT !.data = WriteAtStart(@, posts[p].body)]
          /\ posts' = [posts EXCEPT ![p].pc = "close"]
       \/ \E n \in 0..MaxWritten :
             /\ n < Len(posts[p].body)
             /\ cookies' = [cookies EXCEPT
                               !.data = WriteAtStart(@, SubSeq(posts[p].body, 1, n))]
             /\ posts' = [posts EXCEPT ![p].pc = "close", ![p].err = TRUE]
    /\ UNCHANGED <<srv, handler, reply, stub, locked, last>>
    /\ UNCHANGED cacheVars
    /\ UNCHANGED dlVars

\* os.WriteFile: f.Close(), whose error is the result when the Write had
\* none; saveCookies returns and the handler answers 500 "Failed to save
\* cookies" on an error and 200 otherwise
saveCookiesClose(p) ==
    /\ posts[p].pc = "close"
    /\ \E closeFails \in BOOLEAN :
          reply' = IF posts[p].err \/ closeFails
                   THEN CookiesReply(posts[p].body, 500, HttpError(FailedToSaveCookies))
                   ELSE CookiesReply(posts[p].body, 200, CookiesReceived)
    /\ posts' = [posts EXCEPT ![p] = NoPost]
    /\ UNCHANGED <<srv, handler, stub, cookies, locked, last>>
    /\ UNCHANGED cacheVars
    /\ UNCHANGED dlVars

----------------------------------------------------------------------------
(* The daemon: Server, Downloader and cache, with resolve requests arriving
   while workers run and while the Server is started and stopped *)

WwwYouTubeCom == <<"w","w","w",".">> \o YouTubeCom
Watch == <<"/","w","a","t","c","h">>

UrlEmpty == Url("", FALSE, <<>>, <<>>, <<>>)
UrlWatchA == Url("https://www.youtube.com/watch?v=a", TRUE, WwwYouTubeCom, Watch, <<"a">>)
UrlWatchNoId == Url("https://www.youtube.com/watch", TRUE, WwwYouTubeCom, Watch, <<>>)
UrlExample == Url("https://example.com/video.mp4", TRUE,
                  <<"e","x","a","m","p","l","e",".","c","o","m">>,
                  <<"/","v","i","d","e","o",".","m","p","4">>, <<>>)
UrlNotYouTube == Url("https://notyoutube.com/watch?v=a", TRUE,
                     <<"n","o","t">> \o YouTubeCom, Watch, <<"a">>)

\* the requests made: <<url, avpro, source>>
Requests == {
    <<UrlEmpty, "true", "">>,
    <<UrlWatchA, "false", "">>,
    <<UrlWatchA, "true", "resonite">>,
    <<UrlWatchA, "", "">>,
    <<UrlWatchNoId, "true", "">>,
    <<UrlExample, "false", "">>,
    <<UrlNotYouTube, "", "resonite">> }

\* a budget that one resolver output fits and the other exceeds
ApiBudgets == {2000}

InitApi == InitDl /\ maxSizeBytes \in ApiBudgets

NextApi ==
    \/ (srv.running \/ ctxGen < ApiMaxStarts) /\ ServerStart
    \/ ServerStopBegin
    \/ StopWait /\ UNCHANGED apiVars
    \/ ServerShutdown
    \/ ServerStopEnd
    \/ \E r \in Requests : GetVideoRequest(r[1], r[2], r[3])
    \/ GetVideoHit
    \/ GetVideoMiss
    \/ now < ApiMaxClock /\ Tick /\ UNCHANGED apiVars
    \/ \E w \in WorkerIds : WorkerCheck(w) /\ UNCHANGED apiVars
    \/ \E w \in WorkerIds : WorkerDequeue(w) /\ UNCHANGED apiVars
    \/ \E w \in WorkerIds : WorkerProcess(w) /\ UNCHANGED apiVars
    \/ \E w \in WorkerIds : ResolverExit(w) /\ UNCHANGED apiVars
    \/ \E w \in WorkerIds : WorkerRegister(w) /\ UNCHANGED apiVars
    \/ \E w \in WorkerIds : WorkerSettle(w) /\ UNCHANGED apiVars
    \/ \E w \in WorkerIds : WorkerSettleStatus(w) /\ UNCHANGED apiVars
    \/ \E w \in WorkerIds : WorkerSettleError(w) /\ UNCHANGED apiVars
    \/ \E w \in WorkerIds : WorkerFinish(w) /\ UNCHANGED apiVars

SpecApi == InitApi /\ [][NextApi]_vars

\* one step of worker goroutine w
WorkerStep(w) ==
    /\ \/ WorkerCheck(w)
       \/ WorkerDequeue(w)
       \/ WorkerProcess(w)
       \/ ResolverExit(w)
       \/ WorkerRegister(w)
       \/ WorkerSettle(w)
       \/ WorkerSettleStatus(w)
       \/ WorkerSettleError(w)
       \/ WorkerFinish(w)
    /\ UNCHANGED apiVars

\* the daemon with every goroutine that has a step to take scheduled again
\* and again: the workers, a handler in flight, a Server.Stop under way
SpecApiFair ==
    /\ SpecApi
    /\ \A w \in WorkerIds : WF_vars(WorkerStep(w))
    /\ WF_vars(GetVideoHit)
    /\ WF_vars(GetVideoMiss)
    /\ WF_vars(ServerShutdown)
    /\ WF_vars(ServerStopEnd)

----------------------------------------------------------------------------
(* Resolve requests served while the cache is written: registrations that
   evict, DeleteEntry and Clear run between the steps of a handler *)

HitBudget == 2000

\* the files put into the cache directory and the registrations made
HitFiles == {<<FileA, 1000>>, <<FileB, 2000>>}
HitRegistrations == {<<IdA, FileA>>, <<IdB, FileB>>}

InitHit == InitDl /\ maxSizeBytes = HitBudget

NextHit ==
    \/ ServerStart
    \/ GetVideoRequest(UrlWatchA, "false", "")
    \/ GetVideoHit
    \/ GetVideoMiss
    \/ \E f \in HitFiles : WriteFile(f[1], f[2]) /\ UNCHANGED apiVars
    \/ \E r \in HitRegistrations : AddEntry(r[1], r[2]) /\ UNCHANGED apiVars
    \/ DeleteEntry(IdA) /\ UNCHANGED apiVars
    \/ Clear /\ UNCHANGED apiVars
    \/ \E w \in WorkerIds : WorkerCheck(w) /\ UNCHANGED apiVars
    \/ \E w \in WorkerIds : WorkerDequeue(w) /\ UNCHANGED apiVars
    \/ \E w \in WorkerIds : WorkerProcess(w) /\ UNCHANGED apiVars
    \/ \E w \in WorkerIds : ResolverExit(w) /\ UNCHANGED apiVars
    \/ \E w \in WorkerIds : WorkerRegister(w) /\ UNCHANGED apiVars
    \/ \E w \in WorkerIds : WorkerSettle(w) /\ UNCHANGED apiVars
    \/ \E w \in WorkerIds : WorkerSettleStatus(w) /\ UNCHANGED apiVars
    \/ \E w \in WorkerIds : WorkerSettleError(w) /\ UNCHANGED apiVars
    \/ \E w \in WorkerIds : WorkerFinish(w) /\ UNCHANGED apiVars

SpecHit == InitHit /\ [][NextHit]_vars

----------------------------------------------------------------------------
(* The Server started and stopped while GET /api/status is asked and the
   cache is written *)

\* the cache without a limit and with the limit of one file
InitStatusApi == InitDl /\ maxSizeBytes \in {0, HitBudget}

NextStatusApi ==
    \/ ServerStart
    \/ ServerStopBegin
    \/ StopWait /\ UNCHANGED apiVars
    \/ ServerShutdown
    \/ ServerStopEnd
    \/ handleStatusBegin
    \/ handleStatusRunning
    \/ handleStatusSize
    \/ handleStatusEnd
    \/ \E f \in HitFiles : WriteFile(f[1], f[2]) /\ UNCHANGED apiVars
    \/ \E r \in HitRegistrations : AddEntry(r[1], r[2]) /\ UNCHANGED apiVars
    \/ \E w \in WorkerIds : WorkerCheck(w) /\ UNCHANGED apiVars
    \/ \E w \in WorkerIds : WorkerDequeue(w) /\ UNCHANGED apiVars

SpecStatusApi == InitStatusApi /\ [][NextStatusApi]_vars

\* the calls that move a request: those of NextStatus without GetStatus,
\* which changes nothing of the Downloader
NextRun ==
    \/ Start /\ UNCHANGED apiVars
    \/ \E call \in QueueCalls : Queue(call[1], call[2]) /\ UNCHANGED apiVars
    \/ \E w \in WorkerIds : WorkerCheck(w) /\ UNCHANGED apiVars
    \/ \E w \in WorkerIds : WorkerDequeue(w) /\ UNCHANGED apiVars
    \/ \E w \in WorkerIds : WorkerProcess(w) /\ UNCHANGED apiVars
    \/ \E w \in WorkerIds : ResolverExit(w) /\ UNCHANGED apiVars
    \/ \E w \in WorkerIds : WorkerRegister(w) /\ UNCHANGED apiVars
    \/ \E w \in WorkerIds : WorkerSettle(w) /\ UNCHANGED apiVars
    \/ \E w \in WorkerIds : WorkerSettleStatus(w) /\ UNCHANGED apiVars
    \/ \E w \in WorkerIds : WorkerSettleError(w) /\ UNCHANGED apiVars
    \/ \E w \in WorkerIds : WorkerFinish(w) /\ UNCHANGED apiVars

\* the running Downloader with every worker goroutine scheduled again and
\* again, and every resolver process terminating
SpecStatusFair ==
    /\ InitStatus
    /\ [][NextRun]_vars
    /\ \A w \in WorkerIds : WF_vars(WorkerStep(w))

----------------------------------------------------------------------------
(* Downloads whose resolver names its output itself: the resolver exits 0
   having written any of the exact output file, a file with a format code
   and a file with a format code and the other media extension *)

\* <id>.f137.<ext>
CodedFile(id, ext) == id \o <<".","f","1","3","7",".">> \o ext

\* the other of the two media extensions
OtherExt(ext) == IF ext = <<"m","p","4">> THEN <<"w","e","b","m">> ELSE <<"m","p","4">>

ResolverOutputs(req) ==
    { OutputFile(req),
      CodedFile(req.VideoID, FormatString(req.Format)),
      CodedFile(req.VideoID, OtherExt(FormatString(req.Format))) }

\* the sizes of the files, by their extension
DetectSize(f) == IF HasSuffix(f, <<"w","e","b","m">>) THEN 3000 ELSE 1000

\* executeDownload: cmd.CombinedOutput() returns nil, the resolver having
\* written the files names
ResolverExitWith(w, names) ==
    /\ w \in DOMAIN workers
    /\ workers[w].pc = "exec"
    /\ workers[w].cmdCtx \notin cancelled
    /\ disk' = [f \in DOMAIN disk \cup names |->
                   IF f \in names THEN [size |-> DetectSize(f), mtime |-> now] ELSE disk[f]]
    /\ workers' = [workers EXCEPT ![w].pc = "register"]
    /\ last' = NoDlObs
    /\ UNCHANGED <<entries, maxSizeBytes, now>>
    /\ UNCHANGED <<queue, active, running, ctxGen, cancelled, wg, stopWaiting, hist>>

DetectCalls == {<<(<<"a">>), "DownloadFormatMP4">>}

InitDetect == InitDl /\ maxSizeBytes = 0

NextDetect ==
    \/ Start /\ UNCHANGED apiVars
    \/ \E c \in DetectCalls : Queue(c[1], c[2]) /\ UNCHANGED apiVars
    \/ \E w \in WorkerIds : WorkerCheck(w) /\ UNCHANGED apiVars
    \/ \E w \in WorkerIds : WorkerDequeue(w) /\ UNCHANGED apiVars
    \/ \E w \in WorkerIds : WorkerProcess(w) /\ UNCHANGED apiVars
    \/ \E w \in WorkerIds \cap DOMAIN workers :
          \E names \in SUBSET ResolverOutputs(workers[w].req) :
          ResolverExitWith(w, names) /\ UNCHANGED apiVars
    \/ \E w \in WorkerIds : WorkerRegister(w) /\ UNCHANGED apiVars
    \/ \E w \in WorkerIds : WorkerSettle(w) /\ UNCHANGED apiVars
    \/ \E w \in WorkerIds : WorkerSettleStatus(w) /\ UNCHANGED apiVars
    \/ \E w \in WorkerIds : WorkerSettleError(w) /\ UNCHANGED apiVars
    \/ \E w \in WorkerIds : WorkerFinish(w) /\ UNCHANGED apiVars

SpecDetect == InitDetect /\ [][NextDetect]_vars

----------------------------------------------------------------------------
(* The resolve endpoint over the shapes of URL: hosts that are, contain or
   end in youtube.com, paths of one and of several segments, identifiers
   outside the alphabet and beyond the length of the file layout *)

UrlExactHost == Url("https://youtube.com/watch?v=a", TRUE,
    <<"y","o","u","t","u","b","e",".","c","o","m">>,
    <<"/","w","a","t","c","h">>, <<"a">>)
UrlMobileEmbed == Url("https://m.youtube.com/embed/a", TRUE,
    <<"m",".","y","o","u","t","u","b","e",".","c","o","m">>,
    <<"/","e","m","b","e","d","/","a">>, <<>>)
UrlShort == Url("https://youtu.be/a", TRUE,
    <<"y","o","u","t","u",".","b","e">>,
    <<"/","a">>, <<>>)
UrlSuffixHost == Url("https://youtube.com.example.org/watch?v=a", TRUE,
    <<"y","o","u","t","u","b","e",".","c","o","m",".","e","x","a","m","p","l","e",".","o","r","g">>,
    <<"/","w","a","t","c","h">>, <<"a">>)
UrlShortTwoSegments == Url("https://youtu.be/a/d", TRUE,
    <<"y","o","u","t","u",".","b","e">>,
    <<"/","a","/","d">>, <<>>)
UrlEmbedTwoSegments == Url("https://www.youtube.com/embed/a/d", TRUE,
    <<"w","w","w",".","y","o","u","t","u","b","e",".","c","o","m">>,
    <<"/","e","m","b","e","d","/","a","/","d">>, <<>>)
UrlVTwoSegments == Url("https://www.youtube.com/v/a/d", TRUE,
    <<"w","w","w",".","y","o","u","t","u","b","e",".","c","o","m">>,
    <<"/","v","/","a","/","d">>, <<>>)
UrlWatchDotDot == Url("https://www.youtube.com/watch?v=../x", TRUE,
    <<"w","w","w",".","y","o","u","t","u","b","e",".","c","o","m">>,
    <<"/","w","a","t","c","h">>, <<".",".","/","x">>)
UrlUnparsable == Url("http://[::1", FALSE,
    <<>>,
    <<>>, <<>>)
UrlWatchLong == Url("https://www.youtube.com/watch?v=yyy...(65)", TRUE,
    WwwYouTubeCom, Watch, LongStem65)

\* the requests made: <<url, avpro, source>>
UrlCases == {
    <<UrlWatchA, "true", "">>,
    <<UrlExactHost, "false", "">>,
    <<UrlMobileEmbed, "true", "">>,
    <<UrlShort, "true", "">>,
    <<UrlNotYouTube, "true", "">>,
    <<UrlSuffixHost, "true", "">>,
    <<UrlShortTwoSegments, "true", "">>,
    <<UrlEmbedTwoSegments, "true", "">>,
    <<UrlVTwoSegments, "true", "">>,
    <<UrlWatchDotDot, "true", "">>,
    <<UrlWatchLong, "true", "">>,
    <<UrlWatchNoId, "true", "">>,
    <<UrlExample, "true", "">>,
    <<UrlUnparsable, "true", "">> }

\* the cache is empty and no worker takes a request from the queue
NextUrl ==
    \/ ServerStart
    \/ \E r \in UrlCases : GetVideoRequest(r[1], r[2], r[3])
    \/ GetVideoMiss

SpecUrl == InitApi /\ [][NextUrl]_vars

----------------------------------------------------------------------------
(* The cookies endpoint: bodies posted to a started Server, up to MaxPosts of
   them being handled at once *)

\* the pieces the posted bodies are made of: the domain and the cookie name,
\* their spellings in another case, and the cookie name with a value
MaxBodyWords == 2
CookieWords == {
    <<".","y","o","u","t","u","b","e",".","c","o","m","\t">>,
    LoginInfo,
    <<".","Y","o","u","T","u","b","e",".","c","o","m","\t">>,
    <<"l","o","g","i","n","_","i","n","f","o">>,
    LoginInfo \o <<"\t","1","\n">> }

RECURSIVE Flatten(_)
Flatten(ws) == IF ws = <<>> THEN <<>> ELSE Head(ws) \o Flatten(Tail(ws))

CookieBodies == {Flatten(ws) : ws \in UNION {[1..n -> CookieWords] : n \in 0..MaxBodyWords}}

OldCookies == [exists |-> TRUE, data |-> <<"o","l","d">>]

\* the cookies file is absent, or is there from an earlier run
InitCookies ==
    /\ cookies \in {NoCookies, OldCookies}
    /\ posts = NoPosts
    /\ locked = {}
    /\ srv = [running |-> FALSE, http |-> "none", pc |-> "idle"]
    /\ handler = NoHandler
    /\ reply = NoReply
    /\ stub = [pc |-> "none"]
    /\ maxSizeBytes = 0
    /\ disk = EmptyMap
    /\ entries = EmptyMap
    /\ now = 0
    /\ last = NoDlObs
    /\ queue = <<>>
    /\ active = EmptyMap
    /\ running = FALSE
    /\ ctxGen = 0
    /\ cancelled = {}
    /\ wg = NewWaitGroup
    /\ workers = EmptyMap
    /\ stopWaiting = 0
    /\ hist = [req |-> EmptyMap, stopReturned |-> FALSE]

NextCookies ==
    \/ ServerStart
    \/ \E p \in PostIds, body \in CookieBodies : handleYouTubeCookies(p, body)
    \/ \E p \in PostIds : saveCookiesOpen(p)
    \/ \E p \in PostIds : saveCookiesWrite(p)
    \/ \E p \in PostIds : saveCookiesClose(p)

SpecCookies == InitCookies /\ [][NextCookies]_vars

----------------------------------------------------------------------------
(* The resolver stub: cmd/ytdlp-stub/main.go *)

ProtocolFilter == <<"[","p","r","o","t","o","c","o","l","^","=","h","t","t","p","]">>
FlagJ == <<"-","J">>
ErrNoURL == "no URL found in arguments"

\* parseArgs, the loop over args from position i with the flags found so far:
\* an argument with the protocol filter or equal to -J sets its flag and the
\* loop continues, the first argument starting with http ends the loop
RECURSIVE parseArgsFrom(_, _, _, _)
parseArgsFrom(args, i, avPro, source) ==
    IF i > Len(args)
    THEN [err |-> ErrNoURL, url |-> <<>>, avPro |-> FALSE, source |-> ""]
    ELSE IF Contains(args[i], ProtocolFilter)
    THEN parseArgsFrom(args, i + 1, FALSE, source)
    ELSE IF args[i] = FlagJ
    THEN parseArgsFrom(args, i + 1, avPro, "resonite")
    ELSE IF HasPrefix(ToLower(args[i]), <<"h","t","t","p">>)
    THEN [err |-> "nil", url |-> args[i], avPro |-> avPro, source |-> source]
    ELSE parseArgsFrom(args, i + 1, avPro, source)

\* parseArgs
parseArgs(args) == parseArgsFrom(args, 1, TRUE, "vrchat")

\* what the local server does with the stub's request: no connection, or a
\* status and a body
Refused == [status |-> 0, body |-> <<>>]
Response(status, body) == [status |-> status, body |-> body]

\* the query makeRequest sends
Query(videoURL, avPro, source) ==
    [url |-> videoURL, avpro |-> IF avPro THEN "true" ELSE "false", source |-> source]

\* makeRequest, given the server's answer: [err, body]
makeRequest(videoURL, avPro, source, resp) ==
    IF resp = Refused
    THEN [err |-> "connection refused - is VRCVideoCacher running?", body |-> <<>>]
    ELSE IF resp.status # 200
    THEN [err |-> "server returned error", body |-> <<>>]
    ELSE [err |-> "nil", body |-> resp.body]

\* fmt.Println of one string
Println(text) == text \o <<"\n">>

\* run: the exit code, what is written to standard output and to standard
\* error, and the query sent (if any)
run(args, resp) ==
    LET p == parseArgs(args)
        m == makeRequest(p.url, p.avPro, p.source, resp)
    IN IF p.err # "nil"
       THEN [exit |-> 1, stdout |-> <<>>, stderr |-> "ERROR: " \o p.err, sent |-> FALSE,
             query |-> Query(<<>>, FALSE, "")]
       ELSE IF m.err # "nil"
       THEN [exit |-> 1, stdout |-> <<>>, stderr |-> "ERROR: " \o m.err, sent |-> TRUE,
             query |-> Query(p.url, p.avPro, p.source)]
       ELSE [exit |-> 0, stdout |-> Println(m.body), stderr |-> "", sent |-> TRUE,
             query |-> Query(p.url, p.avPro, p.source)]

\* the arguments the stub is called with
MaxArgs == 3
ArgF == <<"-","f">>
ArgFilter == <<"b","v","*","[","p","r","o","t","o","c","o","l","^","=","h","t","t","p","]">>
ArgUrl == <<"h","t","t","p","s",":","/","/","y","o","u","t","u",".","b","e","/","a">>
ArgUrlUpper == <<"H","T","T","P",":","/","/","x">>
ArgWords == {ArgF, FlagJ, ArgFilter, ArgUrl, ArgUrlUpper}
ArgLists == UNION {[1..n -> ArgWords] : n \in 0..MaxArgs}

\* the answers of the local server: a bypass or miss, a hit, an error, none
Responses == {
    Response(200, <<>>),
    Response(200, <<"u","/","a",".","m","p","4">>),
    Response(400, <<"N","o"," ","U","R","L"," ","p","r","o","v","i","d","e","d">>),
    Refused }

\* the stub about to run
InitStub ==
    /\ \E args \in ArgLists, resp \in Responses :
          stub = [pc |-> "ready", args |-> args, resp |-> resp]
    /\ srv = [running |-> FALSE, http |-> "none", pc |-> "idle"]
    /\ handler = NoHandler
    /\ reply = NoReply
    /\ cookies = NoCookies
    /\ posts = NoPosts
    /\ locked = {}
    /\ maxSizeBytes = 0
    /\ disk = EmptyMap
    /\ entries = EmptyMap
    /\ now = 0
    /\ last = NoDlObs
    /\ queue = <<>>
    /\ active = EmptyMap
    /\ running = FALSE
    /\ ctxGen = 0
    /\ cancelled = {}
    /\ wg = NewWaitGroup
    /\ workers = EmptyMap
    /\ stopWaiting = 0
    /\ hist = [req |-> EmptyMap, stopReturned |-> FALSE]

\* main: run(os.Args[1:])
StubRun ==
    /\ stub.pc = "ready"
    /\ stub' = [pc |-> "done", args |-> stub.args, resp |-> stub.resp,
                out |-> run(stub.args, stub.resp)]
    /\ UNCHANGED <<srv, handler, reply, cookies, posts, locked>>
    /\ UNCHANGED <<last, hist>>
    /\ UNCHANGED <<entries, disk, maxSizeBytes, now>>
    /\ UNCHANGED <<queue, active, running, ctxGen, cancelled, wg, workers, stopWaiting>>

NextStub == StubRun

SpecStub == InitStub /\ [][NextStub]_vars

----------------------------------------------------------------------------
(* Properties of the cache Manager *)

\* C3: with a byte budget greater than 0, right after any AddEntry or Scan
\* returns, the sum of Size over the index is at most the budget.
Th_C3_BudgetRespected ==
    (last.op \in {"AddEntry", "Scan"} /\ maxSizeBytes > 0)
        => GetSize(entries) <= maxSizeBytes

\* an AddEntry has just evicted something and left a non-empty index
Wit_C3_EvictedToBudget ==
    /\ last.op = "AddEntry"
    /\ last.err = "nil"
    /\ last.evicted # {}
    /\ maxSizeBytes > 0
    /\ DOMAIN entries # {}

\* C4 (order): after an eviction no entry strictly older than an evicted one
\* is still in the index.
EvictionOrderRespected ==
    \A x \in last.evicted : \A id \in DOMAIN entries :
        ~(entries[id].LastAccess < x.LastAccess)

\* C4 (scenario): budget 2000, A and B of 1000 bytes in the index with
\* A older than B, then C of 1000 bytes added at a later time: exactly A is evicted.
LRUScenarioStep ==
    ( /\ maxSizeBytes = 2000
      /\ DOMAIN entries = {IdA, IdB}
      /\ entries[IdA].Size = 1000
      /\ entries[IdB].Size = 1000
      /\ entries[IdA].LastAccess < entries[IdB].LastAccess
      /\ entries[IdB].LastAccess < now
      /\ FileExists(disk, FileC)
      /\ disk[FileC].size = 1000
      /\ last'.op = "AddEntry" /\ last'.id = IdC /\ last'.file = FileC )
    => ( /\ DOMAIN entries' = {IdB, IdC}
         /\ {x.ID : x \in last'.evicted} = {IdA}
         /\ GetSize(entries') = 2000 )

\* C4: eviction removes entries in non-decreasing LastAccess order, and in
\* the scenario of three 1000-byte entries under a budget of 2000 exactly the
\* oldest is evicted.
Th_C4_EvictionOrder == [](EvictionOrderRespected) /\ [][LRUScenarioStep]_vars

\* the scenario has happened: C was added, A evicted, B and C remain
Wit_C4_LRUScenario ==
    /\ maxSizeBytes = 2000
    /\ last.op = "AddEntry" /\ last.id = IdC /\ last.err = "nil"
    /\ {x.ID : x \in last.evicted} = {IdA}
    /\ DOMAIN entries = {IdB, IdC}
    /\ entries[IdB].LastAccess < entries[IdC].LastAccess
    /\ \A x \in last.evicted : x.LastAccess < entries[IdB].LastAccess

\* C5 (as claimed): after AddEntry(id, f) returns nil, GetEntry(id) succeeds.
CE_C5_AddedEntryPresent ==
    (last.op = "AddEntry" /\ last.err = "nil") => GetEntryOk(entries, last.id)

\* C6 (as claimed): every index entry has its file in the directory, with the
\* size the entry records.
CE_C6_EntriesHaveFiles ==
    \A id \in DOMAIN entries :
        /\ FileExists(disk, entries[id].FileName)
        /\ disk[entries[id].FileName].size = entries[id].Size

\* Scan by a fresh Manager over the current directory agrees with the index:
\* the same ids, the same Size per id
FreshScanAgrees ==
    \A r \in ScanResults(EmptyMap, disk, maxSizeBytes) :
        /\ DOMAIN r.entries = DOMAIN entries
        /\ \A id \in DOMAIN entries : r.entries[id].Size = entries[id].Size

\* the directory is the one the index describes: every file of it is the file
\* of an entry, and every entry's file is in it
DirectoryMatchesIndex == IndexedFiles(entries) = DOMAIN disk

\* C7 (as claimed): Scan on a fresh Manager over a directory produced by
\* AddEntry and DeleteEntry yields the ids and sizes of the index.
CE_C7_ScanRoundTrip == DirectoryMatchesIndex => FreshScanAgrees

\* the identifiers of the file layout: 1 to 64 characters of [A-Za-z0-9_-]
IdAlphabet == {Upper[i] : i \in 1..Len(Upper)} \cup {Lower[i] : i \in 1..Len(Lower)}
                \cup {Digits[i] : i \in 1..Len(Digits)} \cup {"_", "-"}

MatchesLayout(f) ==
    \E ext \in {DotMp4, DotWebm} :
        /\ HasSuffix(f, ext)
        /\ Len(f) - Len(ext) \in 1..64
        /\ \A i \in 1..(Len(f) - Len(ext)) : f[i] \in IdAlphabet

\* C8 (as claimed): Scan indexes exactly the files named <id>.mp4 or
\* <id>.webm with id of 1 to 64 characters of [A-Za-z0-9_-].
CE_C8_ScanIndexesLayoutOnly ==
    last.op = "Scan" =>
        IndexedFiles(entries) = {f \in DOMAIN disk : MatchesLayout(f)}

----------------------------------------------------------------------------
(* Properties of the Downloader *)

\* the number of requests for this id in the pending queue
QueuedCount(q, videoID) == Cardinality({i \in 1..Len(q) : q[i].VideoID = videoID})

\* the workers that hold a request for this id
Processing(videoID) == {w \in DOMAIN workers : workers[w].req.VideoID = videoID}

\* C1: an id in the active map is not in the pending queue, no id occurs
\* twice in the pending queue, and at most one worker processes a given id.
Th_C1_SingleFlight ==
    \A id \in DlIds :
        /\ (id \in DOMAIN active => QueuedCount(queue, id) = 0)
        /\ QueuedCount(queue, id) <= 1
        /\ Cardinality(Processing(id)) <= 1
        /\ (Processing(id) # {} => id \in DOMAIN active)

\* one id is being downloaded, the other waits in the queue, and a Queue call
\* for the first has just been turned away
Wit_C1_ActiveAndQueued ==
    /\ <<"a">> \in DOMAIN active
    /\ Processing(<<"a">>) # {}
    /\ QueuedCount(queue, <<"b">>) = 1
    /\ last = DlObs("Queue", <<"a">>, "ErrAlreadyQueued", FALSE)

\* C2 (as claimed): of the Queue calls for one id that was unknown at the
\* first of them, exactly one appends, every other returns ErrAlreadyQueued,
\* and together they cause at most one worker run and one AddEntry.
CE_C2_OneRunPerId ==
    \A id \in DlIds :
        /\ Count(id).accepted <= 1
        /\ Count(id).runs <= 1
        /\ Count(id).adds <= 1
        /\ (/\ last.op = "Queue" /\ last.id = id /\ running
            /\ Count(id).accepted >= 1 /\ ~last.appended)
               => last.err = "ErrAlreadyQueued"

\* C2 (amended): a Queue call on a running downloader appends only when the
\* id is neither cached, queued nor active, and returns ErrAlreadyQueued
\* exactly when the id is queued or active; every appended request is run at
\* most once and registered at most once per run.
Th_C2_OneRunPerRequest ==
    \A id \in DlIds :
        /\ Count(id).accepted = Count(id).runs + QueuedCount(queue, id)
        /\ Count(id).adds <= Count(id).runs
        /\ QueuedCount(queue, id) + Cardinality(Processing(id)) <= 1
        /\ (last.op = "Queue" /\ last.id = id /\ running) =>
              /\ last.appended =>
                    (last.err = "nil" /\ QueuedCount(queue, id) = 1 /\ id \notin DOMAIN active)
              /\ (QueuedCount(queue, id) = 1 \/ id \in DOMAIN active) =>
                    (last.appended \/ last.err = "ErrAlreadyQueued")
              /\ last.err = "ErrAlreadyQueued" =>
                    (~last.appended /\ (QueuedCount(queue, id) = 1 \/ id \in DOMAIN active))
              /\ (last.err = "nil" /\ ~last.appended) => GetEntryOk(entries, id)

\* an id was queued and run, its worker has finished, and a later call for it
\* has appended a second request
Wit_C2_RequeuedAfterRun ==
    /\ last.op = "Queue"
    /\ last.appended
    /\ Count(last.id).accepted = 2
    /\ Count(last.id).runs = 1
    /\ Count(last.id).adds = 1
    /\ QueuedCount(queue, last.id) = 1

\* C9 (as claimed): the second Start leaves the downloader as a first Start
\* of a fresh instance does: running, the queue and the active map empty,
\* maxWorkers workers live.
CE_C9_RestartIsFresh ==
    (last.op = "Start" /\ ctxGen >= 2) =>
        /\ running
        /\ queue = <<>>
        /\ active = EmptyMap
        /\ Cardinality(DOMAIN workers) = maxWorkers

\* a restarted downloader that still holds a request queued before the Stop
Wit_C9_RestartKeepsQueue ==
    /\ last.op = "Start"
    /\ ctxGen = 2
    /\ queue # <<>>

\* C10 (state): once a Stop has returned and no Start followed, no worker is
\* live and the active map is empty.
StoppedIsQuiet ==
    hist.stopReturned =>
        /\ ~running
        /\ workers = EmptyMap
        /\ wg.v = 0
        /\ active = EmptyMap

\* C10 (idempotence): a Stop on a stopped downloader returns nil and changes
\* nothing.
StopIdempotentStep ==
    (~running /\ stopWaiting = 0 /\ last'.op = "Stop") =>
        /\ last'.err = "nil"
        /\ UNCHANGED <<queue, active, running, ctxGen, cancelled, wg, workers, stopWaiting>>
        /\ UNCHANGED <<entries, disk>>

\* C10 (no registration): between the return of a Stop and the next Start
\* the cache is not written and no AddEntry is counted.
NoAddAfterStopStep ==
    (hist.stopReturned /\ hist'.stopReturned) =>
        (hist'.req = hist.req /\ entries' = entries /\ disk' = disk)

\* C10: Stop is idempotent, and once a Stop has returned with no Start in
\* between, every worker has returned, the active map is empty and no
\* AddEntry happens until the next Start.
Th_C10_StopQuiesces ==
    [](StoppedIsQuiet) /\ [][StopIdempotentStep /\ NoAddAfterStopStep]_vars

\* a Stop has returned after waiting for a worker that had taken a request,
\* while another request still waits in the queue
Wit_C10_StoppedAfterRun ==
    /\ hist.stopReturned
    /\ last.op = "Stop"
    /\ queue # <<>>
    /\ \E id \in DlIds : Count(id).runs >= 1

\* a Queue call on a downloader that is not running (never started, or
\* stopped) returns ErrDownloaderStopped and leaves the pending queue and the
\* active map as they were
QueueWhenStoppedStep ==
    (~running /\ last'.op = "Queue") =>
        /\ last'.err = "ErrDownloaderStopped"
        /\ ~last'.appended
        /\ queue' = queue
        /\ active' = active

\* C11: every Queue step taken while the downloader is not running is refused
\* with ErrDownloaderStopped and changes neither the queue nor the active map.
Th_C11_QueueWhenStopped == [][QueueWhenStoppedStep]_vars

\* a Queue call was refused by a downloader that had been started and stopped
\* while a request was waiting in its queue
Wit_C11_RefusedAfterStop ==
    /\ last.op = "Queue"
    /\ last.err = "ErrDownloaderStopped"
    /\ ~running
    /\ ctxGen >= 1
    /\ queue # <<>>

\* a Queue call on a running downloader for an id that is in the cache
\* index and neither queued nor active returns nil and leaves the pending
\* queue, the active map and the cache as they were
QueueCachedStep ==
    ( /\ running
      /\ last'.op = "Queue"
      /\ last'.id \in DOMAIN entries
      /\ QueuedCount(queue, last'.id) = 0
      /\ last'.id \notin DOMAIN active )
    => ( /\ last'.err = "nil"
         /\ ~last'.appended
         /\ queue' = queue
         /\ active' = active
         /\ entries' = entries
         /\ disk' = disk )

\* C12: every Queue step for a cached id that is neither queued nor active
\* returns nil and changes nothing.
Th_C12_QueueCachedIsNoOp == [][QueueCachedStep]_vars

\* a Queue call for an id downloaded before has returned nil without appending
Wit_C12_CachedNotQueued ==
    /\ last.op = "Queue"
    /\ last.err = "nil"
    /\ ~last.appended
    /\ running
    /\ last.id \in DOMAIN entries
    /\ Count(last.id).adds >= 1

----------------------------------------------------------------------------
(* Properties of the HTTP dispatcher *)

\* a recognized source: the host is youtube.com, a subdomain of it, or
\* exactly youtu.be
RecognizedSource(u) ==
    /\ u.ok
    /\ \/ u.host = YouTubeCom
       \/ HasSuffix(u.host, <<".">> \o YouTubeCom)
       \/ u.host = YoutuBe

\* the request URL a reply answers
RequestUrl(text) == CHOOSE u \in {r[1] : r \in Requests} : u.text = text

\* C13: a GET /api/getvideo whose non-empty url is not a recognized source, or
\* from which no identifier can be extracted, is answered 200 with an empty
\* body, and nothing is enqueued and no entry is touched for it.
CE_C13_BypassIsInert ==
    \A r \in Requests :
        ( /\ r[1].text # ""
          /\ ~RecognizedSource(r[1]) \/ extractYouTubeVideoID(r[1]).err # "nil" )
        => /\ handler.pc # "idle" => handler.url # r[1].text
           /\ (reply.op = "getvideo" /\ reply.url = r[1].text)
                 => /\ reply.status = 200
                    /\ reply.body = <<>>
                    /\ reply.queued = "none"
                    /\ reply.path = <<>>

\* a request for a host that merely contains youtube.com has put a download
\* in the queue
Wit_C13_LookalikeQueued ==
    /\ reply.op = "getvideo"
    /\ reply.url = UrlNotYouTube.text
    /\ ~RecognizedSource(RequestUrl(reply.url))
    /\ reply.queued = "nil"
    /\ last.op = "Queue"
    /\ last.appended

\* C14: a GET /api/getvideo for an id that is in the cache index is answered
\* 200 with exactly <public_url_base>/<file_name> of the entry, the entry's
\* LastAccess is set to the time of the request, and nothing is enqueued.
Th_C14_HitServesLocalUrl ==
    (reply.op = "getvideo" /\ reply.path # <<>>) =>
        /\ reply.status = 200
        /\ reply.queued = "none"
        /\ reply.format = "none"
        /\ reply.id \in DOMAIN entries
        /\ reply.path = GetFilePath(entries, reply.id)
        /\ reply.body = WebServerURL \o <<"/">> \o entries[reply.id].FileName
        /\ last.op = "UpdateLastAccess" =>
              /\ last.err = "nil"
              /\ entries[reply.id].LastAccess = now

\* a request for a downloaded id has been answered with its local URL at a
\* time later than the download, and the entry carries that time
Wit_C14_HitAfterDownload ==
    /\ reply.op = "getvideo"
    /\ reply.path # <<>>
    /\ reply.body = <<"u","/","a",".","m","p","4">>
    /\ last.op = "UpdateLastAccess"
    /\ entries[reply.id].LastAccess = now
    /\ now = ApiMaxClock
    /\ Count(reply.id).adds = 1
    /\ queue = <<>>

\* the format a miss asks for: mp4 only when avpro is literally "false"
FormatFor(avproStr) ==
    IF avproStr = "false" THEN "DownloadFormatMP4" ELSE "DownloadFormatWebm"

\* the miss branch calls Queue once with the id looked up and the format of
\* the request's avpro, and answers 200 with an empty body whatever Queue
\* returns; what Queue appends carries that id and format
MissStep ==
    (handler.pc = "miss" /\ handler' # handler) =>
        /\ last'.op = "Queue"
        /\ last'.id = handler.id
        /\ reply' = GetVideoReply(handler.url, 200, <<>>, handler.id, <<>>,
                                  last'.err, FormatFor(handler.avpro))
        /\ last'.err \in {"nil", "ErrAlreadyQueued", "ErrDownloaderStopped"}
        /\ IF last'.appended
           THEN queue' = Append(queue, NewRequest(handler.id, FormatFor(handler.avpro)))
           ELSE queue' = queue

\* no answer to a resolve request with a url has a status other than 200
AlwaysOk ==
    (reply.op = "getvideo" /\ reply.url # "") => reply.status = 200

\* C15: on a cache miss the dispatcher calls Queue(id, url, format) with mp4
\* iff avpro is literally "false" and webm otherwise, and answers 200 with an
\* empty body whatever Queue returns; no download outcome changes the status
\* of an answer.
Th_C15_MissQueuesAndAnswersEmpty == []AlwaysOk /\ [][MissStep]_vars

\* a miss was answered 200 with an empty body although Queue refused the
\* request, after a download of the same id had failed
Wit_C15_RefusedQueueStillOk ==
    /\ reply.op = "getvideo"
    /\ reply.url = UrlWatchA.text
    /\ reply.status = 200
    /\ reply.body = <<>>
    /\ reply.queued = "ErrDownloaderStopped"
    /\ reply.format = "DownloadFormatMP4"
    /\ Count(reply.id).runs >= 1
    /\ Count(reply.id).adds = 0

\* the resolver run for id has exited 0 having written the file of the
\* request, and the worker is about to register it
ResolverWrote(id) ==
    \E w \in DOMAIN workers :
        /\ workers[w].pc = "register"
        /\ workers[w].req.VideoID = id
        /\ FileExists(disk, OutputFile(workers[w].req))
        /\ running

\* C16: after a cache-miss resolve request on a running daemon, once the
\* resolver has exited 0 having written <id>.<ext>, eventually GetEntry(id)
\* succeeds (workers being scheduled fairly).
CE_C16_DownloadBecomesHit ==
    \A id \in DlIds : ResolverWrote(id) ~> GetEntryOk(entries, id)

\* a download that exited 0 with its file written was registered and the
\* worker went on, yet the index does not hold the id and a later request for
\* it was answered with an empty body
Wit_C16_DownloadedNeverIndexed ==
    /\ Count(<<"a">>).adds = 1
    /\ Count(<<"a">>).runs = 1
    /\ \A w \in DOMAIN workers : workers[w].pc = "check"
    /\ FileExists(disk, <<"a",".","m","p","4">>) = FALSE
    /\ ~GetEntryOk(entries, <<"a">>)
    /\ reply.op = "getvideo"
    /\ reply.url = UrlWatchA.text
    /\ reply.body = <<>>
    /\ reply.queued = "nil"
    /\ Count(<<"a">>).accepted = 2

\* per id: no more registrations than worker runs, no more worker runs than
\* accepted Queue calls; a worker holding a request holds an accepted one
EnqueueRunRegister ==
    /\ \A id \in DlIds :
          /\ Count(id).adds <= Count(id).runs
          /\ Count(id).runs <= Count(id).accepted
    /\ \A w \in DOMAIN workers :
          workers[w].pc \in {"register", "settle", "status", "error", "finish"} =>
              /\ Count(workers[w].req.VideoID).runs >= 1
              /\ Count(workers[w].req.VideoID).accepted >= 1

\* an id is in the index only after its registration by a worker, and a
\* non-empty answer is given only for an id found in the index
RegisterThenHit ==
    /\ \A id \in DOMAIN entries : Count(id).adds >= 1
    /\ handler.pc = "hit" =>
          /\ handler.path # <<>>
          /\ Count(handler.id).adds >= 1
    /\ (reply.op = "getvideo" /\ reply.url # "" /\ reply.body # <<>>) =>
          /\ reply.path # <<>>
          /\ reply.queued = "none"
          /\ Count(reply.id).adds >= 1

\* C17: for any id the events occur in the order accepted enqueue, worker
\* run, cache registration, cache-hit responses: AddEntry(id) is called only
\* from a worker run preceded by an accepted Queue(id), and a non-empty
\* answer for id is written only if id was in the index at the lookup.
Th_C17_EventOrder == EnqueueRunRegister /\ RegisterThenHit

\* one accepted request, one run, one registration, then a hit answered
\* with the local URL
Wit_C17_FullSequence ==
    /\ Count(<<"a">>).accepted = 1
    /\ Count(<<"a">>).runs = 1
    /\ Count(<<"a">>).adds = 1
    /\ reply.op = "getvideo"
    /\ reply.url = UrlWatchA.text
    /\ reply.body # <<>>
    /\ reply.id = <<"a">>

----------------------------------------------------------------------------
(* Properties of the Server *)

\* C18: Server.Start on a running server returns ErrServerAlreadyRunning and
\* Server.Stop on a server that is not running returns ErrServerNotRunning,
\* the running flag, the listener and the downloader's running state staying
\* as they were; after a Start that went through IsRunning() is true, and
\* after the Stop that follows it IsRunning() is false.
CE_C18_StartStop ==
    /\ (reply.op = "ServerStart" /\ reply.err = "ErrServerAlreadyRunning") =>
          /\ srv.running
          /\ srv.http # "none"
    /\ (reply.op = "ServerStop" /\ reply.err = "ErrServerNotRunning") =>
          /\ ~srv.running
          /\ srv.http = "none"
          /\ ~running
    /\ (reply.op = "ServerStart" /\ reply.err = "nil") => srv.running
    /\ (reply.op = "ServerStop" /\ reply.err # "ErrServerNotRunning") => ~srv.running

\* Stop has returned the error of a Shutdown that ran into its deadline: the
\* downloader is stopped and the listener closed, and IsRunning() is true
Wit_C18_StoppedButRunning ==
    /\ reply.op = "ServerStop"
    /\ reply.err = "server shutdown failed"
    /\ srv.running
    /\ srv.http = "closed"
    /\ ~running

----------------------------------------------------------------------------
(* Properties of the resolver stub *)

\* C19: on HTTP 200 the stub exits 0 having written to standard output
\* exactly the bytes of the response body, nothing after them, and nothing at
\* all when the body is empty.
CE_C19_StdoutIsBody ==
    (stub.pc = "done" /\ stub.out.sent /\ stub.resp.status = 200) =>
        /\ stub.out.exit = 0
        /\ stub.out.stdout = stub.resp.body
        /\ stub.resp.body = <<>> => Len(stub.out.stdout) = 0

\* the server answered 200 with an empty body and the stub wrote one byte
Wit_C19_NewlineForEmptyBody ==
    /\ stub.pc = "done"
    /\ stub.out.sent
    /\ stub.resp = Response(200, <<>>)
    /\ stub.out.exit = 0
    /\ Len(stub.out.stdout) = 1

\* C20: the flags come from all arguments whatever their position: the query
\* says avpro=false iff some argument contains [protocol^=http], and
\* source=resonite iff some argument is exactly -J (vrchat otherwise).
CE_C20_FlagsFromAllArgs ==
    (stub.pc = "done" /\ stub.out.sent) =>
        /\ stub.out.query.avpro = "false" <=>
              \E i \in 1..Len(stub.args) : Contains(stub.args[i], ProtocolFilter)
        /\ stub.out.query.source = "resonite" <=>
              \E i \in 1..Len(stub.args) : stub.args[i] = FlagJ
        /\ stub.out.query.source \in {"resonite", "vrchat"}

\* -J and the protocol filter both follow the URL, and the query sent says
\* avpro=true and source=vrchat
Wit_C20_FlagsAfterUrlIgnored ==
    /\ stub.pc = "done"
    /\ stub.args = <<ArgUrl, FlagJ, ArgFilter>>
    /\ stub.out.sent
    /\ stub.out.query = Query(ArgUrl, TRUE, "vrchat")

----------------------------------------------------------------------------
(* Properties of the cookies endpoint *)

\* a handler of POST /api/youtube-cookies writes its response
CookiesAnswered ==
    /\ reply'.op = "cookies"
    /\ \/ reply' # reply
       \/ \E p \in PostIds : posts[p].pc # "idle" /\ posts'[p].pc = "idle"

\* what the handler answered, as the claim has it: a body with both
\* substrings is answered 200 and is what the file holds, any other body is
\* answered 400 with "invalid" and the file is left as it was
CookiesStep ==
    CookiesAnswered =>
        IF Contains(reply'.posted, YouTubeCom) /\ Contains(reply'.posted, LoginInfo)
        THEN /\ reply'.status = 200
             /\ cookies' = [exists |-> TRUE, data |-> reply'.posted]
        ELSE /\ reply'.status = 400
             /\ Contains(ToLower(reply'.text), <<"i","n","v","a","l","i","d">>)
             /\ cookies' = cookies

\* C21: POST /api/youtube-cookies accepts a body if and only if it contains
\* both youtube.com and LOGIN_INFO; a rejected body is answered 400 with a
\* body containing "invalid" and the cookies file is left unchanged; an
\* accepted body is answered 200 and the file holds exactly the posted bytes.
CE_C21_AcceptedBodySaved == [][CookiesStep]_vars

\* two accepted bodies were posted at once and each handler emptied the file
\* before either wrote: no handler is left, the last one answered 200, and
\* the file holds its bytes followed by the end of the other, longer body
Wit_C21_PostsInterleaved ==
    /\ reply.op = "cookies"
    /\ reply.status = 200
    /\ \A p \in PostIds : posts[p].pc = "idle"
    /\ Len(cookies.data) > Len(reply.posted)
    /\ SubSeq(cookies.data, 1, Len(reply.posted)) = reply.posted
    /\ cookies.data \notin CookieBodies

----------------------------------------------------------------------------
(* Properties of the output file of a download *)

\* <id>.*.<ext>
CodedFor(f, id, ext) ==
    /\ HasPrefix(f, id \o <<".">>)
    /\ HasSuffix(f, <<".">> \o ext)
    /\ Len(f) > Len(id) + Len(ext) + 2

\* <id>.* with an allowed extension
AllowedFor(f, id) ==
    /\ HasPrefix(f, id \o <<".">>)
    /\ Len(f) > Len(id) + 1
    /\ HasSuffix(f, DotMp4) \/ HasSuffix(f, DotWebm)

\* the files of directory d that may be registered for a request, by the
\* priority order: the exact name; else the largest <id>.*.<ext>; else any
\* <id>.* with an allowed extension
BestMatches(d, id, ext) ==
    LET exact == FileOf(id, ext)
        coded == {f \in DOMAIN d : CodedFor(f, id, ext)}
    IN IF exact \in DOMAIN d THEN {exact}
       ELSE IF coded # {}
       THEN {f \in coded : \A g \in coded : d[g].size <= d[f].size}
       ELSE {f \in DOMAIN d : AllowedFor(f, id)}

\* C22: after the resolver exits 0 the file registered for the request is
\* the best match in the cache directory (exact <id>.<ext>, else a file
\* <id>.*.<ext>, else a file <id>.* with an allowed extension), and the
\* request fails only when there is no candidate.
CE_C22_OutputLocated ==
    \A w \in DOMAIN workers :
        workers[w].pc = "settle" =>
            LET id == workers[w].req.VideoID
                best == BestMatches(disk, id, FormatString(workers[w].req.Format))
            IN IF best = {}
               THEN workers[w].err
               ELSE /\ ~workers[w].err
                    /\ GetEntryOk(entries, id)
                    /\ entries[id].FileName \in best

\* the resolver wrote only a.f137.mp4 and the request has failed, nothing
\* being registered for its id
Wit_C22_CodedFileNotFound ==
    \E w \in DOMAIN workers :
        /\ workers[w].pc = "settle"
        /\ workers[w].err
        /\ workers[w].req.VideoID = <<"a">>
        /\ DOMAIN disk = {CodedFile(<<"a">>, <<"m","p","4">>)}
        /\ ~GetEntryOk(entries, <<"a">>)

----------------------------------------------------------------------------
(* Properties of the classification of URLs *)

\* the request URL behind the text a handler or a reply carries
UrlCase(text) == CHOOSE u \in {r[1] : r \in UrlCases} : u.text = text

\* C23: a URL is classified as the primary source (and may yield an id) only
\* if its host is exactly youtube.com, a subdomain of youtube.com or exactly
\* youtu.be; a host that merely contains youtube.com is bypass.
CE_C23_HostClassified ==
    /\ handler.pc # "idle" => RecognizedSource(UrlCase(handler.url))
    /\ (reply.op = "getvideo" /\ reply.url # "" /\ reply.queued # "none") =>
          RecognizedSource(UrlCase(reply.url))

\* an id was taken from a URL whose host only begins with youtube.com, and
\* its download was queued
Wit_C23_SuffixHostQueued ==
    /\ reply.op = "getvideo"
    /\ reply.url = UrlSuffixHost.text
    /\ reply.id = <<"a">>
    /\ reply.queued = "nil"
    /\ \E i \in 1..Len(queue) : queue[i].VideoID = <<"a">>

\* the text of s before the first "/" in it
RECURSIVE UpToSlash(_)
UpToSlash(s) ==
    IF s = <<>> \/ Head(s) = "/" THEN <<>> ELSE <<Head(s)>> \o UpToSlash(Tail(s))

\* whether the id of u is taken from its path, and the path after the prefix
FromPath(u) ==
    \/ u.host = YoutuBe
    \/ HasPrefix(u.path, <<"/","e","m","b","e","d","/">>)
    \/ HasPrefix(u.path, <<"/","v","/">>)

PathRest(u) ==
    IF u.host = YoutuBe THEN TrimPrefix(u.path, <<"/">>)
    ELSE IF HasPrefix(u.path, <<"/","e","m","b","e","d","/">>)
    THEN TrimPrefix(u.path, <<"/","e","m","b","e","d","/">>)
    ELSE TrimPrefix(u.path, <<"/","v","/">>)

\* C24: for short-link URLs and for canonical URLs with path prefix /embed/
\* or /v/ the identifier extracted is one path segment: it ends at the next
\* "/" or at the end of the path, and never contains "/".
CE_C24_SingleSegment ==
    (handler.pc # "idle" /\ FromPath(UrlCase(handler.url))) =>
        /\ handler.id = UpToSlash(PathRest(UrlCase(handler.url)))
        /\ \A i \in 1..Len(handler.id) : handler.id[i] # "/"

\* the id a/d, taken from /embed/a/d, is in the download queue
Wit_C24_TwoSegmentsQueued ==
    /\ reply.op = "getvideo"
    /\ reply.url = UrlEmbedTwoSegments.text
    /\ reply.id = <<"a","/","d">>
    /\ reply.queued = "nil"
    /\ \E i \in 1..Len(queue) : queue[i].VideoID = <<"a","/","d">>

\* an identifier of the file layout
ValidId(id) ==
    /\ Len(id) \in 1..64
    /\ \A i \in 1..Len(id) : id[i] \in IdAlphabet

\* C25: every identifier the dispatcher passes to the download queue is
\* non-empty, at most 64 characters long and made of [A-Za-z0-9_-] only,
\* whatever the request url.
CE_C25_QueuedIdsValid ==
    /\ handler.pc = "miss" => ValidId(handler.id)
    /\ \A i \in 1..Len(queue) : ValidId(queue[i].VideoID)

\* the ids ../x and one of 65 characters are both in the download queue
Wit_C25_TraversalIdQueued ==
    /\ \E i \in 1..Len(queue) : queue[i].VideoID = <<".",".","/","x">>
    /\ \E i \in 1..Len(queue) : Len(queue[i].VideoID) = 65
    /\ OutputFile(queue[1]) \in {<<".",".","/","x",".","w","e","b","m">>, LongStem65 \o DotWebm}

----------------------------------------------------------------------------
(* Further properties of the cache Manager *)

\* no step moves the LastAccess of an entry that stays in the index back
LastAccessStep ==
    \A id \in DOMAIN entries \cap DOMAIN entries' :
        entries'[id].LastAccess >= entries[id].LastAccess

\* C26: for any entry LastAccess never decreases while the entry stays in
\* the index, over every sequence of AddEntry, UpdateLastAccess and Scan with
\* a non-decreasing clock; a Scan after an AddEntry does not move it back to
\* the file's modification time.
CE_C26_LastAccessMonotonic == [][LastAccessStep]_vars

\* a Scan has just run over an entry whose file was written at time 0 and
\* which AddEntry had registered later: its LastAccess is 0 again
Wit_C26_ScanResetsLastAccess ==
    /\ last.op = "Scan"
    /\ now = MaxClock
    /\ GetEntryOk(entries, IdA)
    /\ entries[IdA].FileName = FileA
    /\ disk[FileA].mtime = 0
    /\ entries[IdA].LastAccess = 0

\* C27: eviction is deterministic: among entries of equal LastAccess the one
\* with the lexically smallest id is evicted first, so after an eviction no
\* entry is left that ties with an evicted one and has a smaller id.
CE_C27_TieBrokenById ==
    \A x \in last.evicted : \A id \in DOMAIN entries :
        ~(entries[id].LastAccess = x.LastAccess /\ StrLess(id, x.ID))

\* b was evicted while a, registered at the same time, is still indexed
Wit_C27_LargerIdEvicted ==
    /\ last.op = "AddEntry"
    /\ {x.ID : x \in last.evicted} = {IdB}
    /\ GetEntryOk(entries, IdA)
    /\ \E x \in last.evicted : x.LastAccess = entries[IdA].LastAccess

\* an AddEntry for an id indexed under another file replaces the entry,
\* counts the new file's size only, and removes the old file (unless another
\* entry refers to it)
ReplaceStep ==
    ( /\ last'.op = "AddEntry"
      /\ last'.err = "nil"
      /\ last'.id \in DOMAIN entries
      /\ entries[last'.id].FileName # last'.file )
    => LET old == entries[last'.id].FileName
       IN /\ last'.id \in DOMAIN entries' =>
                /\ entries'[last'.id].FileName = last'.file
                /\ entries'[last'.id].Size = disk[last'.file].size
          /\ old \notin IndexedFiles(entries') => ~FileExists(disk', old)

\* C28: AddEntry(id, f2) for an id indexed with file f1 replaces the entry,
\* no longer counts the old file's size, and removes the old file from the
\* cache directory when f1 differs from f2, so that no unindexed file of a
\* replaced entry stays on disk.
CE_C28_ReplaceRemovesOldFile == [][ReplaceStep]_vars

\* b, indexed under b.mp4, was registered again under a.mp4: b.mp4 is still
\* in the directory and no entry refers to it
Wit_C28_OldFileOrphaned ==
    /\ last.op = "AddEntry"
    /\ last.err = "nil"
    /\ last.id = IdB
    /\ last.file = FileA
    /\ GetEntryOk(entries, IdB)
    /\ entries[IdB].FileName = FileA
    /\ FileExists(disk, FileB)
    /\ FileB \notin IndexedFiles(entries)

\* the file an entry named when the step took it out of the index: Scan and
\* AddEntry write the entry before they evict
RemovedFileName(id) ==
    IF last'.op = "Scan"
    THEN ScanLoop(ReadDir(DOMAIN disk), 1, entries, disk)[id].FileName
    ELSE IF last'.op = "AddEntry" /\ last'.err = "nil" /\ last'.id = id
    THEN last'.file
    ELSE entries[id].FileName

\* an entry leaves the index only with its file gone from the directory
RemovalStep ==
    \A id \in DOMAIN entries \ DOMAIN entries' :
        ~FileExists(disk', RemovedFileName(id))

\* C29: in every mutating cache operation (DeleteEntry, Clear, eviction in
\* AddEntry or Scan) an index entry is removed only after its file was
\* removed or was already absent; when the removal fails otherwise the entry
\* stays in the index and the failure is reported.
CE_C29_IndexFollowsFiles == [][RemovalStep]_vars

\* Clear has returned nil with an empty index, and a.mp4, which could not
\* be removed, is still in the directory
Wit_C29_ClearLeavesFile ==
    /\ last.op = "Clear"
    /\ last.err = "nil"
    /\ DOMAIN entries = {}
    /\ FileA \in locked
    /\ FileExists(disk, FileA)
    /\ FileExists(disk, FileB) = FALSE

----------------------------------------------------------------------------
(* Further properties of the Server *)

\* while the HTTP server shuts down, and after a shutdown, the downloader is
\* stopped and no worker goroutine is left
ShutdownIsQuiet ==
    srv.http \in {"closing", "closed"} =>
        /\ ~running
        /\ hist.stopReturned
        /\ workers = EmptyMap
        /\ wg.v = 0
        /\ active = EmptyMap

\* s.server.Shutdown is called in a step in which, or after which,
\* s.downloader.Stop has returned, and no worker starts during it
ShutdownAfterStopStep ==
    /\ (srv.http = "serving" /\ srv'.http = "closing") =>
          (srv.pc = "stopDl" /\ hist'.stopReturned /\ wg'.v = 0)
    /\ (srv.http = "closing") => (workers' = EmptyMap /\ ~running')

\* C30: Server.Stop first stops the download queue (all workers returned)
\* and only then starts the graceful HTTP shutdown, so no worker is running
\* while or after the HTTP server shuts down.
Th_C30_QueueStoppedBeforeShutdown ==
    [](ShutdownIsQuiet) /\ [][ShutdownAfterStopStep]_vars

\* Server.Stop is in s.server.Shutdown with a resolve request still being
\* handled, after its downloader's Stop waited for a worker whose resolver
\* had been started
Wit_C30_ShutdownAfterWorkers ==
    /\ srv.pc = "shutdown"
    /\ srv.http = "closing"
    /\ handler.pc # "idle"
    /\ last.op = "Stop"
    /\ workers = EmptyMap
    /\ \E id \in DlIds : Count(id).runs >= 1 /\ Count(id).adds = 0

\* a resolve request is taken up, and its Queue call made, only while the
\* download queue accepts requests
DispatchStep ==
    (handler' # handler) => running

\* C31: on shutdown the dispatcher stops before the queue is stopped: from
\* the moment the download queue stops accepting requests no resolve request
\* is handled, so no GET /api/getvideo handler calls Queue on a stopped
\* downloader during Server.Stop.
CE_C31_DispatcherStopsFirst == [][DispatchStep]_vars

\* during Server.Stop, with the downloader stopped and the HTTP server not
\* yet shut down, a handler's Queue call was refused with ErrDownloaderStopped
Wit_C31_QueueOnStoppedDownloader ==
    /\ srv.pc \in {"stopDl", "shutdown"}
    /\ ~running
    /\ reply.op = "getvideo"
    /\ reply.queued = "ErrDownloaderStopped"

----------------------------------------------------------------------------
(* Further properties of the Downloader *)

\* the worker goroutines that take the step from pc p to pc q
Moved(p, q) ==
    {w \in DOMAIN workers \cap DOMAIN workers' :
        workers[w].pc \in p /\ workers'[w].pc \in q}

\* the index changes only in a successful AddEntry of a worker whose resolver
\* left the output file; a run whose resolver was cancelled fails; a failing
\* run leaves the index alone and ends as failed with its error
WorkerRunStep ==
    /\ (entries' # entries) =>
          \E w \in Moved({"register"}, {"settle"}) :
             /\ ~workers'[w].err
             /\ FileExists(disk, OutputFile(workers[w].req))
             /\ hist'.req[workers[w].req.VideoID].adds = Count(workers[w].req.VideoID).adds + 1
    /\ \A w \in Moved({"exec"}, {"register", "settle"}) :
          workers[w].cmdCtx \in cancelled => (workers'[w].pc = "settle" /\ workers'[w].err)
    /\ \A w \in Moved({"exec", "register"}, {"settle"}) :
          workers'[w].err => entries' = entries
    /\ \A w \in Moved({"register"}, {"settle"}) :
          ~FileExists(disk, OutputFile(workers[w].req)) => workers'[w].err
    /\ \A w \in Moved({"status", "error"}, {"finish"}) :
          workers[w].err =>
             (workers'[w].req.Status = "StatusFailed" /\ workers'[w].req.Error)

\* no run makes more than one AddEntry call
AddsWithinRuns ==
    \A id \in DOMAIN hist.req : hist.req[id].adds <= hist.req[id].runs

\* C32: a worker run changes the cache index only by one AddEntry after the
\* resolver exited 0; a run that is cancelled by Stop, whose resolver fails,
\* or whose resolver exits 0 without the output file ends failed with an
\* error and leaves the index unchanged.
CE_C32_FailedRunLeavesIndex ==
    [](AddsWithinRuns) /\ [][WorkerRunStep]_vars

\* the run for a/d, whose resolver left no a/d.webm, has ended completed
\* with the id registered for d.webm, the file of the download of d
Wit_C32_ForeignFileRegistered ==
    /\ IdSlash \in DOMAIN entries
    /\ entries[IdSlash].FileName = IdD \o DotWebm
    /\ ~FileExists(disk, IdSlash \o DotWebm)
    /\ \E w \in DOMAIN workers :
          /\ workers[w].pc = "finish"
          /\ workers[w].req.VideoID = IdSlash
          /\ workers[w].req.Status = "StatusCompleted"

Terminal == {"StatusCompleted", "StatusFailed"}

\* a request as long as the Downloader holds it: FinishedAt is set in a
\* terminal state, Error exactly in the state failed
RequestConsistent(req) ==
    /\ req.Status \in {"StatusQueued", "StatusDownloading"} \cup Terminal
    /\ req.Status \in Terminal => req.FinishedAt
    /\ req.Error <=> req.Status = "StatusFailed"

RequestsConsistent ==
    /\ \A i \in 1..Len(queue) :
          queue[i].Status = "StatusQueued" /\ RequestConsistent(queue[i])
    /\ \A w \in DOMAIN workers :
          workers[w].req # NoReq => RequestConsistent(workers[w].req)

\* the state of a request changes only from queued to downloading and from
\* downloading to completed or failed; a worker takes up queued requests only
RequestStep ==
    \A w \in DOMAIN workers \cap DOMAIN workers' :
        LET old == workers[w].req
            new == workers'[w].req
        IN /\ (old = NoReq /\ new # NoReq) => new.Status = "StatusQueued"
           /\ (old # NoReq /\ new # NoReq /\ new.Status # old.Status) =>
                 \/ old.Status = "StatusQueued" /\ new.Status = "StatusDownloading"
                 \/ old.Status = "StatusDownloading" /\ new.Status \in Terminal
           /\ (old # NoReq /\ new = NoReq) => old.Status \in Terminal

\* C33: every download request moves only forward through queued, then
\* downloading, then exactly one of completed or failed; FinishedAt is set
\* when it reaches a terminal state, and Error is non-nil if and only if the
\* state is failed.
CE_C33_RequestMovesForward ==
    [](RequestsConsistent) /\ [][RequestStep]_vars

\* GetStatus has returned a request in the state failed whose Error is nil:
\* the worker had written req.Status and not yet req.Error
Wit_C33_FailedWithoutError ==
    /\ last.op = "GetStatus"
    /\ last.err = "nil"
    /\ last.req.Status = "StatusFailed"
    /\ ~last.req.Error
    /\ \E w \in DOMAIN workers :
          /\ workers[w].pc = "error"
          /\ workers[w].req.VideoID = last.id
          /\ workers[w].req.Status = "StatusFailed"
          /\ ~workers[w].req.Error

\* what GetStatus answered agrees with the active map and the queue it read
StatusStep ==
    (last'.op = "GetStatus" /\ UNCHANGED <<queue, active, workers>>) =>
        /\ (last'.err = "nil") <=>
              (last'.id \in DOMAIN active \/ InQueue(queue, last'.id))
        /\ (last'.err = "nil") => last'.req.VideoID = last'.id
        /\ (last'.id \notin DOMAIN active /\ InQueue(queue, last'.id)) =>
              last'.req.Status = "StatusQueued"
        /\ (last'.err # "nil") => last'.err = "video not found"

\* C34: GetStatus(id) returns a request if and only if id is in the active
\* map or in the pending queue; a request still in the queue is reported as
\* queued, and once the worker processing a request has returned GetStatus
\* reports not found.
Th_C34_StatusOfHeldRequests == [][StatusStep]_vars

\* GetStatus answers not found for an id whose run has ended and whose file
\* is in the cache
Wit_C34_TerminalNotRetained ==
    /\ last.op = "GetStatus"
    /\ last.err = "video not found"
    /\ Count(last.id).runs >= 1
    /\ last.id \in DOMAIN entries
    /\ last.id \notin DOMAIN active

\* the queue changes only by an accepted Queue call appending at its end or
\* by a dequeue taking its head, which that worker then holds as active; the
\* active map gains an id in no other way
FifoStep ==
    /\ (queue' # queue) =>
          \/ /\ last'.op = "Queue"
             /\ last'.err = "nil"
             /\ Len(queue') = Len(queue) + 1
             /\ SubSeq(queue', 1, Len(queue)) = queue
             /\ queue'[Len(queue')].VideoID = last'.id
             /\ active' = active
          \/ /\ queue # <<>>
             /\ queue' = Tail(queue)
             /\ \E w \in Moved({"dequeue"}, {"process"}) :
                   /\ workers'[w].req = Head(queue)
                   /\ active' = MapPut(active, Head(queue).VideoID, w)
    /\ (DOMAIN active' \ DOMAIN active # {}) =>
          (queue # <<>> /\ DOMAIN active' = DOMAIN active \cup {Head(queue).VideoID})

\* C35: requests leave the pending queue in the order they were accepted,
\* for any number of workers; each dequeue removes exactly the head and adds
\* exactly that request to active.
Th_C35_QueueIsFifo == [][FifoStep]_vars

\* of two accepted requests the one accepted first is active and has been
\* taken once, while the other still waits in the queue
Wit_C35_HeadTakenFirst ==
    /\ Len(queue) = 1
    /\ DOMAIN active = DlIds \ {queue[1].VideoID}
    /\ Count(queue[1].VideoID).runs = 0
    /\ \A id \in DOMAIN active : Count(id).runs = 1 /\ Count(id).accepted = 1

\* the requests of the queue with this id
QueuedOf(id) == Cardinality({i \in 1..Len(queue) : queue[i].VideoID = id})

\* every accepted request is in the queue or was taken by a worker, once
Accounted ==
    \A id \in DlIds : Count(id).accepted = Count(id).runs + QueuedOf(id)

\* a worker holds the request for id in a terminal state
ReachedTerminal(id) ==
    \E w \in DOMAIN workers :
        /\ workers[w].pc = "finish"
        /\ workers[w].req.VideoID = id
        /\ workers[w].req.Status \in Terminal

\* C36: while the Downloader is running and the resolver always terminates,
\* every request accepted by Queue is eventually dequeued by exactly one
\* worker and reaches a terminal state (under fair scheduling of the
\* workers); no accepted request is dropped.
Th_C36_AcceptedRequestsFinish ==
    /\ [](Accounted)
    /\ \A id \in DlIds : InQueue(queue, id) ~> ReachedTerminal(id)

\* the second request accepted for an id has reached a terminal state, like
\* the first, and nothing waits in the queue
Wit_C36_BothRunsFinished ==
    /\ queue = <<>>
    /\ \E id \in DlIds :
          /\ Count(id).accepted = 2
          /\ Count(id).runs = 2
          /\ ReachedTerminal(id)

\* C37: at every reachable state the number of live worker loops, and so
\* the number of entries of the active map, is at most maxWorkers, also when
\* Start is called while a previous Stop has cleared the running flag and
\* still waits for its workers; that Stop still returns (no panic of the
\* WaitGroup ends the process).
CE_C37_WorkersBounded ==
    /\ Cardinality(DOMAIN workers) <= maxWorkers
    /\ Cardinality(DOMAIN active) <= maxWorkers
    /\ Alive

\* a Stop waits in workerWg.Wait() while the workers of the run it stopped
\* and those of the next Start all live, one of the former having read the
\* new, uncancelled d.ctx in its check
Wit_C37_OldWorkersSurvive ==
    /\ stopWaiting = 1
    /\ running
    /\ Cardinality(DOMAIN workers) = 2 * maxWorkers
    /\ \E w \in DOMAIN workers :
          /\ w[1] = 1
          /\ w[1] \in cancelled
          /\ workers[w].pc = "dequeue"
          /\ ctxGen = 2
          /\ ctxGen \notin cancelled

\* C38: in every state of the Server in which IsRunning() can be asked (no
\* Start or Stop holds s.mu), IsRunning() is true if and only if the
\* downloader is running and the HTTP server is serving, whatever Start and
\* Stop calls were made, a Stop whose shutdown fails on its deadline included.
CE_C38_RunningMeansServing ==
    srv.pc = "idle" => (srv.running <=> (running /\ srv.http = "serving"))

\* after a Stop whose shutdown failed, a Start is refused with
\* ErrServerAlreadyRunning while the downloader is stopped and the HTTP server
\* shut down
Wit_C38_RestartRefused ==
    /\ srv.pc = "idle"
    /\ reply.op = "ServerStart"
    /\ reply.err = "ErrServerAlreadyRunning"
    /\ srv.running
    /\ srv.http = "closed"
    /\ ~running

\* Server.Stop, holding s.mu, waits in s.server.Shutdown for the handlers in
\* flight, and the handler in flight waits for s.mu
WaitCycle ==
    /\ srv.pc = "shutdown"
    /\ handler.pc = "statusLock"

\* C39: Server.Stop on a running server returns nil and leaves IsRunning()
\* false also when a GET /api/status request is in flight or arrives during
\* the Stop: the handler's read lock and Stop's write lock never form a wait
\* cycle that only the shutdown deadline breaks.
CE_C39_StopWithStatusInFlight ==
    /\ ~WaitCycle
    /\ (reply.op = "ServerStop" /\ reply.err # "ErrServerNotRunning") =>
          (reply.err = "nil" /\ ~srv.running)

\* the deadline of Shutdown has broken the cycle: Stop has returned its
\* error with s.running left true, and the status handler still waits for
\* its read lock
Wit_C39_DeadlineBrokeCycle ==
    /\ reply.op = "ServerStop"
    /\ reply.err = "server shutdown failed"
    /\ handler.pc = "statusLock"
    /\ srv.running
    /\ srv.http = "closed"
    /\ ~running

\* the hit branch answers a local URL for an entry that is in the index with
\* its file in the directory
HitStep ==
    (handler.pc = "hit" /\ handler'.pc = "idle") =>
        /\ handler.id \in DOMAIN entries'
        /\ GetFilePath(entries', handler.id) = handler.path
        /\ FileExists(disk', entries'[handler.id].FileName)

\* C40: when GET /api/getvideo answers with a non-empty local URL for id,
\* the entry for id is in the cache index and its file is on disk at the
\* moment the response is written, under any interleaving with a concurrent
\* AddEntry that evicts, DeleteEntry or Clear.
CE_C40_HitServesPresentEntry == [][HitStep]_vars

\* the handler answered the local URL of an entry that was gone when it came
\* to touch it: UpdateLastAccess returned ErrEntryNotFound, which is ignored
Wit_C40_UrlOfRemovedEntry ==
    /\ reply.op = "getvideo"
    /\ reply.status = 200
    /\ reply.path # <<>>
    /\ last.op = "UpdateLastAccess"
    /\ last.err = "ErrEntryNotFound"
    /\ reply.id \notin DOMAIN entries
    /\ ~FileExists(disk, Base(reply.path))

====
